---- MODULE Spec2Model ----
(***************************************************************************)
(* Verification model of the Screenshot-to-Text extraction pipeline.       *)
(*                                                                         *)
(*   SpecRateLimit : the in-memory rate limiter of src/lib/openai.ts       *)
(*                   (checkRateLimit and the setInterval sweep).           *)
(*   Spec          : one extractTextFromImage call (format validation,     *)
(*                   compressImageIfNeeded, the retry loop).               *)
(*   SpecCompress  : compressImageIfNeeded called on its own, over a wider *)
(*                   range of buffers and options.                         *)
(*   SpecLive      : one extractTextFromImage call whose awaited promises  *)
(*                   all settle.                                           *)
(*   SpecParse     : parseExtractionResponse and detectLanguageFromText.   *)
(*   SpecHeuristics: estimateConfidence.                                   *)
(*   SpecRoute     : one POST /api/ocr request.                            *)
(*   SpecBudget    : POST /api/ocr requests of one client in one window.   *)
(*   SpecStore     : the storage adapter and DELETE /api/history.          *)
(*   SpecConnect   : connectToDatabase, one call after the other.          *)
(*   SpecConnectRace : connectToDatabase, two calls interleaved.           *)
(*                                                                         *)
(* Strings the code inspects character by character (MIME types, the       *)
(* retry-after header) are sequences of one-character strings.             *)
(***************************************************************************)
EXTENDS Integers, Sequences, FiniteSets, TLC

VARIABLES
    \* ---- rate limiter ----
    now,             \* Date.now(), in milliseconds
    ticks,           \* how many times the clock has advanced
    rateLimitStore,  \* Map<string, RateLimitEntry>: a function on the stored ips
    lastCheck,       \* the value returned by the latest checkRateLimit call
    windows,         \* history: per ip, the windows opened and the calls in them
    unsweptStore,    \* reference: the store of the same calls when no sweep runs
    \* ---- extractTextFromImage / compressImageIfNeeded ----
    pc,              \* position in extractTextFromImage
    input,           \* the call's arguments and environment
    cpc,             \* position in compressImageIfNeeded
    image,           \* compressImageIfNeeded's locals
    processed,       \* the value compressImageIfNeeded returned
    attempt,         \* the retry loop's counter
    requests,        \* history: the upstream requests issued, in order
    waits,           \* history: the backoff timers awaited, in order
    events,          \* history: the outcome of each attempt, in order
    outcome,         \* what extractTextFromImage returned or threw
    \* ---- parseExtractionResponse and its heuristics ----
    parts,           \* history: the pieces the model response was made of
    fullText,        \* the model response (response.choices[0].message.content)
    result,          \* the value parseExtractionResponse returned for fullText
    reparsed,        \* the value it returned for result's text
    applied,         \* estimateConfidence and detectLanguageFromText of fullText
    \* ---- POST /api/ocr ----
    rpc,             \* position in the POST handler
    request,         \* the inbound request
    envelopes,       \* history: the responses the handler returned
    \* ---- MongoDB adapter ----
    collection,      \* the screenshots collection: the stored records
    cachedClient,    \* whether a client is cached (cachedClient && cachedDb)
    dbResult,        \* the outcome of the latest adapter call
    \* ---- connectToDatabase, step by step ----
    clientCache,     \* cachedClient (with cachedDb): a client, or 0 for null
    clientsCreated,  \* how many MongoClient objects were made
    connectedClients,\* the clients whose connect() succeeded
    connectCalls,    \* per caller: the position and locals of its call
    callsStarted     \* how many calls were started

rlVars == <<now, ticks, rateLimitStore, lastCheck, windows, unsweptStore>>
exVars == <<pc, input, cpc, image, processed, attempt, requests, waits, events, outcome>>
pxVars == <<parts, fullText, result, reparsed, applied>>
rtVars == <<rpc, request, envelopes>>
dbVars == <<collection, cachedClient, dbResult>>
cnVars == <<clientCache, clientsCreated, connectedClients, connectCalls, callsStarted>>
vars == <<rlVars, exVars, pxVars, rtVars, dbVars, cnVars>>

(***************************************************************************)
(* Strings as character sequences                                          *)
(***************************************************************************)
Digits == {"0", "1", "2", "3", "4", "5", "6", "7", "8", "9"}

DigitValue(c) ==
    CASE c = "0" -> 0 [] c = "1" -> 1 [] c = "2" -> 2 [] c = "3" -> 3
      [] c = "4" -> 4 [] c = "5" -> 5 [] c = "6" -> 6 [] c = "7" -> 7
      [] c = "8" -> 8 [] c = "9" -> 9

\* The printable ASCII characters, in code order from 32 (" ") to 126 ("~");
\* the grave accent, which a TLA+ string cannot hold, is written U+0060.
Ascii ==
    <<" ", "!", "\"", "#", "$", "%", "&", "'", "(", ")", "*", "+",
      ",", "-", ".", "/", "0", "1", "2", "3", "4", "5", "6", "7",
      "8", "9", ":", ";", "<", "=", ">", "?", "@", "A", "B", "C",
      "D", "E", "F", "G", "H", "I", "J", "K", "L", "M", "N", "O",
      "P", "Q", "R", "S", "T", "U", "V", "W", "X", "Y", "Z", "[",
      "\\", "]", "^", "_", "U+0060", "a", "b", "c", "d", "e", "f", "g",
      "h", "i", "j", "k", "l", "m", "n", "o", "p", "q", "r", "s",
      "t", "u", "v", "w", "x", "y", "z", "{", "|", "}", "~">>

AsciiCode ==
    [c \in {Ascii[i] : i \in 1..Len(Ascii)} |->
        31 + (CHOOSE i \in 1..Len(Ascii) : Ascii[i] = c)]

\* Characters outside printable ASCII are written by their code point.
OtherCode ==
    [c \in {"\t", "\n", "U+00A7", "U+00E9", "U+0416", "U+05D0", "U+0634",
            "U+0E01", "U+3042", "U+30A2", "U+4E2D", "U+D55C"} |->
        CASE c = "\t" -> 9         [] c = "\n" -> 10
          [] c = "U+00A7" -> 167   [] c = "U+00E9" -> 233
          [] c = "U+0416" -> 1046  [] c = "U+05D0" -> 1488
          [] c = "U+0634" -> 1588  [] c = "U+0E01" -> 3585
          [] c = "U+3042" -> 12354 [] c = "U+30A2" -> 12450
          [] c = "U+4E2D" -> 20013 [] c = "U+D55C" -> 54620]

\* String.prototype.charCodeAt.
CodePoint(c) == IF c \in DOMAIN AsciiCode THEN AsciiCode[c] ELSE OtherCode[c]

\* String.prototype.toLowerCase: "A".."Z" go to "a".."z" (the code
\* lower-cases MIME types and [a-z] language codes only).
LowerChar(c) ==
    IF CodePoint(c) \in 65..90 THEN Ascii[CodePoint(c) + 32 - 31] ELSE c

toLowerCase(s) == [i \in 1..Len(s) |-> LowerChar(s[i])]

\* String.prototype.includes: sub occurs in s as a contiguous run.
includes(s, sub) ==
    \E i \in 0..(Len(s) - Len(sub)) :
        \A j \in 1..Len(sub) : s[i + j] = sub[j]

startsWith(s, pre) ==
    /\ Len(pre) <= Len(s)
    /\ \A j \in 1..Len(pre) : s[j] = pre[j]

(***************************************************************************)
(* Rate limiter (src/lib/openai.ts, lines 540-610)                         *)
(***************************************************************************)
RATE_LIMIT_WINDOW_MS == 60 * 1000
RATE_LIMIT_MAX_REQUESTS == 10

\* Client identities, as getClientIP resolves them.
Ips == {"10.0.0.1", "unknown"}

\* The clock advances by one of these amounts, at most MaxTicks times.
MaxTicks == 3
TickSteps == {1, RATE_LIMIT_WINDOW_MS - 1}

\* At most this many calls are made inside one window of one identity.
MaxCallsPerWindow == 11

NoCheck ==
    [ip |-> "none", at |-> 0, allowed |-> FALSE, remaining |-> 0, resetTime |-> 0,
     nth |-> 0, fresh |-> FALSE, prevCalls |-> 0, prevReset |-> -1,
     swept |-> FALSE,
     unswept |-> [allowed |-> FALSE, remaining |-> 0, resetTime |-> 0]]

\* Line 578: the stored window has expired.
ExpiredOffByOne(entry, t) == entry.resetTime <= t
Expired(entry, t) == entry.resetTime < t

\* Line 593: the window's budget is used up.
LimitReachedOffByOne(entry) == entry.count > RATE_LIMIT_MAX_REQUESTS
LimitReached(entry) == entry.count >= RATE_LIMIT_MAX_REQUESTS

\* Line 578: no entry, or the window expired: a new window opens.
OpensWindowAlways(store, ip, t) == TRUE
OpensWindow(store, ip, t) ==
    \/ ip \notin DOMAIN store
    \/ Expired(store[ip], t)

MapSet(store, ip, entry) ==
    [x \in (DOMAIN store) \cup {ip} |-> IF x = ip THEN entry ELSE store[x]]

\* The store after checkRateLimit(ip) at time t.
StoreAfterCheckLostUpdate(store, ip, t) ==
    IF OpensWindow(store, ip, t)
    THEN MapSet(store, ip, [count |-> 1, resetTime |-> t + RATE_LIMIT_WINDOW_MS])
    ELSE store
StoreAfterCheck(store, ip, t) ==
    IF OpensWindow(store, ip, t)
    THEN MapSet(store, ip, [count |-> 1, resetTime |-> t + RATE_LIMIT_WINDOW_MS])
    ELSE IF LimitReached(store[ip])
    THEN store
    ELSE MapSet(store, ip, [store[ip] EXCEPT !.count = @ + 1])

\* The value checkRateLimit(ip) returns at time t.
CheckResult(store, ip, t) ==
    IF OpensWindow(store, ip, t)
    THEN [allowed |-> TRUE, remaining |-> RATE_LIMIT_MAX_REQUESTS - 1,
          resetTime |-> t + RATE_LIMIT_WINDOW_MS]
    ELSE IF LimitReached(store[ip])
    THEN [allowed |-> FALSE, remaining |-> 0, resetTime |-> store[ip].resetTime]
    ELSE [allowed |-> TRUE,
          remaining |-> RATE_LIMIT_MAX_REQUESTS - (store[ip].count + 1),
          resetTime |-> store[ip].resetTime]

\* Lines 556-563: the sweep deletes the entries whose window has expired.
SweepDeletesOffByOne(store, t) == {ip \in DOMAIN store : store[ip].resetTime <= t}
SweepDeletes(store, t) == {ip \in DOMAIN store : store[ip].resetTime < t}

StoreAfterSweep(store, t) ==
    [ip \in (DOMAIN store) \ SweepDeletes(store, t) |-> store[ip]]

\* History: the windows of ip that contain time t (from the opening call to
\* its resetTime, both included).
LiveWindows(ip, t) == {w \in windows[ip] : w.open <= t /\ t <= w.reset}

MaxOf(S) == CHOOSE x \in S : \A y \in S : y <= x

\* The window of ip opened last, when there is one.
LatestWindow(ip) ==
    CHOOSE w \in windows[ip] : \A v \in windows[ip] : v.open <= w.open

WindowsAfterCheck(ip, t, res, opened) ==
    LET touched == {IF w \in LiveWindows(ip, t)
                    THEN [w EXCEPT !.calls = @ + 1,
                                   !.admitted = @ + (IF res.allowed THEN 1 ELSE 0)]
                    ELSE w : w \in windows[ip]}
        kept == IF opened THEN {w \in touched : w.reset >= t} ELSE touched
    IN  IF opened
        THEN kept \cup {[open |-> t, reset |-> res.resetTime, calls |-> 1, admitted |-> 1]}
        ELSE kept

\* One synchronous checkRateLimit(ip) call: what it does to the limiter.
CheckRateLimitCall(ip) ==
    LET res == CheckResult(rateLimitStore, ip, now)
        opened == OpensWindow(rateLimitStore, ip, now)
        live == LiveWindows(ip, now)
    IN  /\ \A w \in live : w.calls < MaxCallsPerWindow
        /\ rateLimitStore' = StoreAfterCheck(rateLimitStore, ip, now)
        /\ windows' = [windows EXCEPT ![ip] = WindowsAfterCheck(ip, now, res, opened)]
        /\ lastCheck' =
              [ip |-> ip, at |-> now, allowed |-> res.allowed,
               remaining |-> res.remaining, resetTime |-> res.resetTime,
               nth |-> IF live = {} THEN 1 ELSE MaxOf({w.calls : w \in live}) + 1,
               fresh |-> live = {},
               prevCalls |-> IF windows[ip] = {} THEN 0 ELSE LatestWindow(ip).calls,
               prevReset |-> IF windows[ip] = {} THEN -1 ELSE LatestWindow(ip).reset,
               swept |-> ip \in (DOMAIN unsweptStore) \ (DOMAIN rateLimitStore),
               unswept |-> CheckResult(unsweptStore, ip, now)]
        /\ unsweptStore' = StoreAfterCheck(unsweptStore, ip, now)
        /\ UNCHANGED <<now, ticks>>

\* checkRateLimit(ip) called on its own.
CheckRateLimit(ip) ==
    /\ CheckRateLimitCall(ip)
    /\ UNCHANGED <<exVars, pxVars, rtVars, dbVars, cnVars>>

\* The setInterval callback.
Sweep ==
    /\ rateLimitStore' = StoreAfterSweep(rateLimitStore, now)
    /\ UNCHANGED <<now, ticks, lastCheck, windows, unsweptStore>>
    /\ UNCHANGED <<exVars, pxVars, rtVars, dbVars, cnVars>>

\* Time passes.
Tick ==
    /\ ticks < MaxTicks
    /\ \E d \in TickSteps : now' = now + d
    /\ ticks' = ticks + 1
    /\ UNCHANGED <<rateLimitStore, lastCheck, windows, unsweptStore>>
    /\ UNCHANGED <<exVars, pxVars, rtVars, dbVars, cnVars>>

(***************************************************************************)
(* Image formats (src/lib/openai.ts, lines 30-50 and 91-95)                *)
(***************************************************************************)
ImagePng  == <<"i", "m", "a", "g", "e", "/", "p", "n", "g">>
ImageJpeg == <<"i", "m", "a", "g", "e", "/", "j", "p", "e", "g">>
ImageJpg  == <<"i", "m", "a", "g", "e", "/", "j", "p", "g">>
ImageWebp == <<"i", "m", "a", "g", "e", "/", "w", "e", "b", "p">>
ImageHeic == <<"i", "m", "a", "g", "e", "/", "h", "e", "i", "c">>
ImageHeif == <<"i", "m", "a", "g", "e", "/", "h", "e", "i", "f">>

SUPPORTED_MIME_TYPES == {ImagePng, ImageJpeg, ImageJpg, ImageWebp, ImageHeic, ImageHeif}

MAX_IMAGE_SIZE == 20 * 1024 * 1024
MAX_IMAGE_DIMENSION == 2048

\* Other declared types a caller may pass.
ImagePngUpper == <<"I", "M", "A", "G", "E", "/", "P", "N", "G">>
ImageXPng     == <<"i", "m", "a", "g", "e", "/", "x", "-", "p", "n", "g">>
ImageGif      == <<"i", "m", "a", "g", "e", "/", "g", "i", "f">>
TextPlain     == <<"t", "e", "x", "t", "/", "p", "l", "a", "i", "n">>
TextXPng      == <<"t", "e", "x", "t", "/", "x", "-", "p", "n", "g">>
VideoJpeg     == <<"v", "i", "d", "e", "o", "/", "j", "p", "e", "g">>
EmptyString   == << >>

MimeSamples ==
    SUPPORTED_MIME_TYPES \cup
        {ImagePngUpper, ImageXPng, ImageGif, TextPlain, TextXPng, VideoJpeg, EmptyString}

\* The positions of "/" in s, and s.split("/")[1] (undefined, here the
\* empty string, when s holds no "/").
SlashPositions(s) == {i \in 1..Len(s) : s[i] = "/"}

MinOf(S) == CHOOSE x \in S : \A y \in S : x <= y

splitSlash1(s) ==
    IF SlashPositions(s) = {} THEN << >>
    ELSE LET first == MinOf(SlashPositions(s))
             later == {i \in SlashPositions(s) : i > first}
             stop  == IF later = {} THEN Len(s) + 1 ELSE MinOf(later)
         IN  SubSeq(s, first + 1, stop - 1)

\* Lines 91-95.
validateImageFormat(mimeType) ==
    \E type \in SUPPORTED_MIME_TYPES :
        includes(toLowerCase(mimeType), splitSlash1(type))

(***************************************************************************)
(* compressImageIfNeeded (src/lib/openai.ts, lines 142-241)                *)
(*                                                                         *)
(* A buffer is [orig, len, enc, width, height]: orig says it is the        *)
(* caller's buffer, enc the encoder that produced it ("input" for bytes    *)
(* sharp wrote in the input's own format). A width or height of 0 stands   *)
(* for undefined. sharp is an external library: each of its calls either   *)
(* throws or returns, and an encoder's output length is any of             *)
(* EncodedLens.                                                            *)
(***************************************************************************)
PNG_TO_JPEG_THRESHOLD == 500 * 1024
DEFAULT_QUALITY == 85
QUALITY_FLOOR == 50
QUALITY_STEP == 20

\* Lines 147-149: an option that is missing or 0 takes the default.
MaxSizeOf(opts) == IF opts.maxSize = 0 THEN MAX_IMAGE_SIZE ELSE opts.maxSize
MaxDimensionOf(opts) ==
    IF opts.maxDimension = 0 THEN MAX_IMAGE_DIMENSION ELSE opts.maxDimension
QualityOf(opts) == IF opts.quality = 0 THEN DEFAULT_QUALITY ELSE opts.quality

Max2(a, b) == IF a >= b THEN a ELSE b
Min2(a, b) == IF a <= b THEN a ELSE b

\* sharp's resize(d, d, {fit: "inside", withoutEnlargement: true}).
FitInside(w, h, d) ==
    IF w <= d /\ h <= d THEN [width |-> w, height |-> h]
    ELSE IF w >= h
    THEN [width |-> d, height |-> Max2(1, (2 * h * d + w) \div (2 * w))]
    ELSE [width |-> Max2(1, (2 * w * d + h) \div (2 * h)), height |-> d]

NoDims == [width |-> 0, height |-> 0]

OriginalBuffer(in) ==
    [orig |-> TRUE, len |-> in.len, enc |-> "input",
     width |-> in.width, height |-> in.height]

\* Lines 161-166, 171 and 239: the caller's buffer and MIME type come back.
ReturnOriginalOutputMime(in, dims) ==
    [buffer |-> OriginalBuffer(in),
     mimeType |-> IF includes(in.mimeType, <<"h", "e", "i", "c">>)
                  THEN ImageJpeg ELSE in.mimeType,
     width |-> dims.width, height |-> dims.height]
ReturnOriginal(in, dims) ==
    [buffer |-> OriginalBuffer(in), mimeType |-> in.mimeType,
     width |-> dims.width, height |-> dims.height]

\* Lines 155-160: the image is within maxDimension on both axes.
WithinDimension(md, maxDimension) ==
    /\ md.width # 0
    /\ md.height # 0
    /\ md.width <= maxDimension
    /\ md.height <= maxDimension

\* Line 184.
NeedsResize(md, maxDimension) ==
    md.width > maxDimension \/ md.height > maxDimension

\* Lines 192-205: the encoder chosen for the first pass and the MIME type
\* reported for its output.
FirstPassEncoder(mimeType, len) ==
    IF mimeType = ImagePng /\ len > PNG_TO_JPEG_THRESHOLD THEN "jpeg"
    ELSE IF includes(mimeType, <<"h", "e", "i", "c">>)
              \/ includes(mimeType, <<"h", "e", "i", "f">>) THEN "jpeg"
    ELSE IF mimeType = ImageWebp THEN "webp"
    ELSE IF mimeType = ImageJpeg \/ mimeType = ImageJpg THEN "jpeg"
    ELSE "input"

OutputMimeType(mimeType, len) ==
    IF mimeType = ImagePng /\ len > PNG_TO_JPEG_THRESHOLD THEN ImageJpeg
    ELSE IF includes(mimeType, <<"h", "e", "i", "c">>)
              \/ includes(mimeType, <<"h", "e", "i", "f">>) THEN ImageJpeg
    ELSE mimeType

\* Line 211: a second, reduced-quality pass is made.
NeedsSecondPassAnyQuality(len, maxSize, quality) == len > maxSize
NeedsSecondPass(len, maxSize, quality) == len > maxSize /\ quality > QUALITY_FLOOR

\* Line 212.
ReducedQuality(quality) == Max2(QUALITY_FLOOR, quality - QUALITY_STEP)

\* Lines 219-223: the encoder of the second pass.
SecondPassEncoder(outputMimeType) ==
    IF outputMimeType = ImageJpeg \/ outputMimeType = ImageJpg THEN "jpeg" ELSE "webp"

\* The lengths an encoder may produce.
EncodedLens(maxSize) == {1024, maxSize, maxSize + 1}

NoImage ==
    [resize |-> FALSE, outputMimeType |-> EmptyString, passes |-> 0,
     quality |-> 0, failedAt |-> "none",
     compressed |-> [orig |-> FALSE, len |-> 0, enc |-> "none", width |-> 0, height |-> 0]]

NoProcessed ==
    [buffer |-> [orig |-> FALSE, len |-> 0, enc |-> "none", width |-> 0, height |-> 0],
     mimeType |-> EmptyString, width |-> 0, height |-> 0]

\* compressImageIfNeeded returns r.
CompressReturns(r) ==
    /\ processed' = r
    /\ cpc' = "done"

\* A sharp call at the given step throws: the surrounding catch returns the
\* original (lines 168-172 and 236-240).
CompressCatches(step) ==
    /\ image' = [image EXCEPT !.failedAt = step]
    /\ CompressReturns(ReturnOriginal(input, NoDims))

\* Line 152.
CompressEntry ==
    /\ pc = "compress"
    /\ cpc = "entry"
    /\ cpc' = IF input.len <= MaxSizeOf(input.opts) THEN "meta1" ELSE "meta2"
    /\ UNCHANGED <<pc, input, image, processed, attempt, requests, waits, events, outcome>>
    /\ UNCHANGED <<rlVars, pxVars, rtVars, dbVars, cnVars>>

\* Lines 153-172: the metadata read of a buffer that is small enough.
CompressSmallMetadata ==
    /\ pc = "compress"
    /\ cpc = "meta1"
    /\ \/ CompressCatches("metadata")
       \/ /\ WithinDimension(input, MaxDimensionOf(input.opts))
          /\ CompressReturns(ReturnOriginal(input, input))
          /\ UNCHANGED image
       \/ /\ ~WithinDimension(input, MaxDimensionOf(input.opts))
          /\ cpc' = "meta2"
          /\ UNCHANGED <<image, processed>>
    /\ UNCHANGED <<pc, input, attempt, requests, waits, events, outcome>>
    /\ UNCHANGED <<rlVars, pxVars, rtVars, dbVars, cnVars>>

\* Lines 176-205: the metadata read, the resize and the choice of encoder.
CompressMetadata ==
    /\ pc = "compress"
    /\ cpc = "meta2"
    /\ \/ CompressCatches("metadata")
       \/ /\ image' = [image EXCEPT
                !.resize = NeedsResize(input, MaxDimensionOf(input.opts)),
                !.outputMimeType = OutputMimeType(input.mimeType, input.len),
                !.quality = QualityOf(input.opts)]
          /\ cpc' = "encode1"
          /\ UNCHANGED processed
    /\ UNCHANGED <<pc, input, attempt, requests, waits, events, outcome>>
    /\ UNCHANGED <<rlVars, pxVars, rtVars, dbVars, cnVars>>

\* Lines 208-211: the first encode pass.
CompressEncode ==
    /\ pc = "compress"
    /\ cpc = "encode1"
    /\ \/ \E step \in (IF image.resize THEN {"resize", "encode"} ELSE {"encode"}) :
             CompressCatches(step)
       \/ \E len \in EncodedLens(MaxSizeOf(input.opts)) :
             LET dims == IF image.resize
                         THEN FitInside(input.width, input.height,
                                        MaxDimensionOf(input.opts))
                         ELSE [width |-> input.width, height |-> input.height]
             IN  /\ image' = [image EXCEPT
                       !.passes = 1,
                       !.compressed =
                           [orig |-> FALSE, len |-> len,
                            enc |-> FirstPassEncoder(input.mimeType, input.len),
                            width |-> dims.width, height |-> dims.height]]
                 /\ cpc' = IF NeedsSecondPass(len, MaxSizeOf(input.opts), image.quality)
                           THEN "encode2" ELSE "finalMeta"
                 /\ UNCHANGED processed
    /\ UNCHANGED <<pc, input, attempt, requests, waits, events, outcome>>
    /\ UNCHANGED <<rlVars, pxVars, rtVars, dbVars, cnVars>>

\* Lines 212-225: the second encode pass, at reduced quality.
CompressSecondPass ==
    /\ pc = "compress"
    /\ cpc = "encode2"
    /\ \/ CompressCatches("secondPass")
       \/ \E len \in EncodedLens(MaxSizeOf(input.opts)) :
             LET dims == FitInside(input.width, input.height,
                                   MaxDimensionOf(input.opts))
             IN  /\ image' = [image EXCEPT
                       !.passes = 2,
                       !.quality = ReducedQuality(image.quality),
                       !.compressed =
                           [orig |-> FALSE, len |-> len,
                            enc |-> SecondPassEncoder(image.outputMimeType),
                            width |-> dims.width, height |-> dims.height]]
                 /\ cpc' = "finalMeta"
                 /\ UNCHANGED processed
    /\ UNCHANGED <<pc, input, attempt, requests, waits, events, outcome>>
    /\ UNCHANGED <<rlVars, pxVars, rtVars, dbVars, cnVars>>

\* Lines 228-235: the metadata read of the compressed buffer, and the return.
CompressFinalMetadata ==
    /\ pc = "compress"
    /\ cpc = "finalMeta"
    /\ \/ CompressCatches("finalMetadata")
       \/ /\ CompressReturns(
                [buffer |-> image.compressed, mimeType |-> image.outputMimeType,
                 width |-> image.compressed.width,
                 height |-> image.compressed.height])
          /\ UNCHANGED image
    /\ UNCHANGED <<pc, input, attempt, requests, waits, events, outcome>>
    /\ UNCHANGED <<rlVars, pxVars, rtVars, dbVars, cnVars>>

CompressStep ==
    \/ CompressEntry
    \/ CompressSmallMetadata
    \/ CompressMetadata
    \/ CompressEncode
    \/ CompressSecondPass
    \/ CompressFinalMetadata

(***************************************************************************)
(* Upstream errors and handleApiError (src/lib/openai.ts, lines 354-390)   *)
(*                                                                         *)
(* An error is [class, status, retryAfter, message]: class "APIError" for  *)
(* OpenAI.APIError and its subclasses (status 0 stands for undefined, as   *)
(* on a connection error), "Error" for any other Error, "other" for a      *)
(* thrown value that is no Error. retryAfter is the retry-after header:    *)
(* [present, value], value a character sequence.                           *)
(***************************************************************************)
NoHeader == [present |-> FALSE, value |-> << >>]
Header(v) == [present |-> TRUE, value |-> v]

\* JavaScript truthiness of error.headers?.["retry-after"].
Truthy(h) == h.present /\ h.value # << >>

NaN == [nan |-> TRUE, value |-> 0]
Num(n) == [nan |-> FALSE, value |-> n]

RECURSIVE SkipSpaces(_)
SkipSpaces(s) == IF s # << >> /\ Head(s) = " " THEN SkipSpaces(Tail(s)) ELSE s

RECURSIVE DigitPrefixLen(_)
DigitPrefixLen(s) ==
    IF s # << >> /\ Head(s) \in Digits THEN 1 + DigitPrefixLen(Tail(s)) ELSE 0

RECURSIVE DecimalValue(_, _)
DecimalValue(s, n) ==
    IF n = 0 THEN 0 ELSE DecimalValue(s, n - 1) * 10 + DigitValue(s[n])

\* parseInt(s): leading white space is skipped, a sign is read, then the
\* longest run of decimal digits; NaN when there is no digit. (The samples
\* hold no "0x" prefix.)
parseInt(s) ==
    LET t == SkipSpaces(s)
        signed == t # << >> /\ Head(t) \in {"-", "+"}
        u == IF signed THEN Tail(t) ELSE t
        n == DigitPrefixLen(u)
    IN  IF n = 0 THEN NaN
        ELSE Num((IF signed /\ Head(t) = "-" THEN -1 ELSE 1) * DecimalValue(u, n))

\* x * 1000 in JavaScript numbers.
Times1000(x) == IF x.nan THEN NaN ELSE Num(x.value * 1000)

Pow2(k) == 2 ^ k

\* The messages errors carry, as the strings they are.
\* "upstream rejected the request"
MsgRejected ==
    <<"u", "p", "s", "t", "r", "e", "a", "m", " ", "r", "e", "j", "e", "c",
      "t", "e", "d", " ", "t", "h", "e", " ", "r", "e", "q", "u", "e", "s",
      "t">>

\* "429 Too Many Requests"
MsgTooManyRequests ==
    <<"4", "2", "9", " ", "T", "o", "o", " ", "M", "a", "n", "y", " ", "R",
      "e", "q", "u", "e", "s", "t", "s">>

\* "500 Internal Server Error"
MsgInternalServerError ==
    <<"5", "0", "0", " ", "I", "n", "t", "e", "r", "n", "a", "l", " ", "S",
      "e", "r", "v", "e", "r", " ", "E", "r", "r", "o", "r">>

\* "400 Bad Request"
MsgBadRequest ==
    <<"4", "0", "0", " ", "B", "a", "d", " ", "R", "e", "q", "u", "e", "s",
      "t">>

\* "400 Invalid image."
MsgInvalidImage ==
    <<"4", "0", "0", " ", "I", "n", "v", "a", "l", "i", "d", " ", "i", "m",
      "a", "g", "e", ".">>

\* "Request timed out."
MsgTimedOut ==
    <<"R", "e", "q", "u", "e", "s", "t", " ", "t", "i", "m", "e", "d", " ",
      "o", "u", "t", ".">>

\* "fetch failed"
MsgFetchFailed == <<"f", "e", "t", "c", "h", " ", "f", "a", "i", "l", "e", "d">>

\* "Please add your OpenAI API key to .env.local"
MsgMissingApiKey ==
    <<"P", "l", "e", "a", "s", "e", " ", "a", "d", "d", " ", "y", "o", "u",
      "r", " ", "O", "p", "e", "n", "A", "I", " ", "A", "P", "I", " ", "k",
      "e", "y", " ", "t", "o", " ", ".", "e", "n", "v", ".", "l", "o", "c",
      "a", "l">>

Message(kind) == [kind |-> kind, retryAfter |-> << >>, retries |-> 0, raw |-> << >>]

handleApiErrorNoServerClass(error, retries) ==
    IF error.class = "APIError"
    THEN IF error.status = 429
         THEN [Message("RateLimitExceeded") EXCEPT
                  !.retryAfter = IF Truthy(error.retryAfter)
                                 THEN error.retryAfter.value ELSE << >>]
         ELSE IF error.status = 401 THEN Message("InvalidApiKey")
         ELSE IF error.status = 402 THEN Message("InsufficientQuota")
         ELSE IF error.status = 404 THEN Message("ModelNotFound")
         ELSE IF error.message # << >>
         THEN [Message("Raw") EXCEPT !.raw = error.message]
         ELSE Message("ApiErrorOccurred")
    ELSE IF error.class = "Error"
    THEN [Message("Raw") EXCEPT !.raw = error.message]
    ELSE Message("UnknownError")

\* Lines 354-390.
handleApiError(error, retries) ==
    IF error.class = "APIError"
    THEN IF error.status = 429
         THEN [Message("RateLimitExceeded") EXCEPT
                  !.retryAfter = IF Truthy(error.retryAfter)
                                 THEN error.retryAfter.value ELSE << >>]
         ELSE IF error.status = 401 THEN Message("InvalidApiKey")
         ELSE IF error.status = 402 THEN Message("InsufficientQuota")
         ELSE IF error.status = 404 THEN Message("ModelNotFound")
         ELSE IF error.status >= 500
         THEN [Message("ServerError") EXCEPT !.retries = retries]
         ELSE IF error.message # << >>
         THEN [Message("Raw") EXCEPT !.raw = error.message]
         ELSE Message("ApiErrorOccurred")
    ELSE IF error.class = "Error"
    THEN [Message("Raw") EXCEPT !.raw = error.message]
    ELSE Message("UnknownError")

\* The fixed texts of handleApiError (lines 359-389) and of line 410.
\* "Rate limit exceeded. Please try again"
TextRateLimitExceeded ==
    <<"R", "a", "t", "e", " ", "l", "i", "m", "i", "t", " ", "e", "x", "c",
      "e", "e", "d", "e", "d", ".", " ", "P", "l", "e", "a", "s", "e", " ",
      "t", "r", "y", " ", "a", "g", "a", "i", "n">>

\* " after "
TextAfter == <<" ", "a", "f", "t", "e", "r", " ">>

\* " seconds"
TextSeconds == <<" ", "s", "e", "c", "o", "n", "d", "s">>

\* " later."
TextLater == <<" ", "l", "a", "t", "e", "r", ".">>

\* "Invalid OpenAI API key. Please check your configuration."
TextInvalidApiKey ==
    <<"I", "n", "v", "a", "l", "i", "d", " ", "O", "p", "e", "n", "A", "I",
      " ", "A", "P", "I", " ", "k", "e", "y", ".", " ", "P", "l", "e", "a",
      "s", "e", " ", "c", "h", "e", "c", "k", " ", "y", "o", "u", "r", " ",
      "c", "o", "n", "f", "i", "g", "u", "r", "a", "t", "i", "o", "n", ".">>

\* "Insufficient OpenAI API quota. Please check your account."
TextInsufficientQuota ==
    <<"I", "n", "s", "u", "f", "f", "i", "c", "i", "e", "n", "t", " ", "O",
      "p", "e", "n", "A", "I", " ", "A", "P", "I", " ", "q", "u", "o", "t",
      "a", ".", " ", "P", "l", "e", "a", "s", "e", " ", "c", "h", "e", "c",
      "k", " ", "y", "o", "u", "r", " ", "a", "c", "c", "o", "u", "n", "t",
      ".">>

\* "OpenAI model not found. Please check the model name."
TextModelNotFound ==
    <<"O", "p", "e", "n", "A", "I", " ", "m", "o", "d", "e", "l", " ", "n",
      "o", "t", " ", "f", "o", "u", "n", "d", ".", " ", "P", "l", "e", "a",
      "s", "e", " ", "c", "h", "e", "c", "k", " ", "t", "h", "e", " ", "m",
      "o", "d", "e", "l", " ", "n", "a", "m", "e", ".">>

\* "OpenAI server error. Please try again"
TextServerError ==
    <<"O", "p", "e", "n", "A", "I", " ", "s", "e", "r", "v", "e", "r", " ",
      "e", "r", "r", "o", "r", ".", " ", "P", "l", "e", "a", "s", "e", " ",
      "t", "r", "y", " ", "a", "g", "a", "i", "n">>

\* " (retry "
TextRetry == <<" ", "(", "r", "e", "t", "r", "y", " ">>

\* "OpenAI API error occurred."
TextApiErrorOccurred ==
    <<"O", "p", "e", "n", "A", "I", " ", "A", "P", "I", " ", "e", "r", "r",
      "o", "r", " ", "o", "c", "c", "u", "r", "r", "e", "d", ".">>

\* "An unknown error occurred while processing the image."
TextUnknownError ==
    <<"A", "n", " ", "u", "n", "k", "n", "o", "w", "n", " ", "e", "r", "r",
      "o", "r", " ", "o", "c", "c", "u", "r", "r", "e", "d", " ", "w", "h",
      "i", "l", "e", " ", "p", "r", "o", "c", "e", "s", "s", "i", "n", "g",
      " ", "t", "h", "e", " ", "i", "m", "a", "g", "e", ".">>

\* "Unsupported image format: "
TextUnsupportedFormat ==
    <<"U", "n", "s", "u", "p", "p", "o", "r", "t", "e", "d", " ", "i", "m",
      "a", "g", "e", " ", "f", "o", "r", "m", "a", "t", ":", " ">>

\* ". Supported formats: PNG, JPEG, WebP, HEIC"
TextSupportedFormats ==
    <<".", " ", "S", "u", "p", "p", "o", "r", "t", "e", "d", " ", "f", "o",
      "r", "m", "a", "t", "s", ":", " ", "P", "N", "G", ",", " ", "J", "P",
      "E", "G", ",", " ", "W", "e", "b", "P", ",", " ", "H", "E", "I", "C">>

\* Number.prototype.toString of a retry count (0..9).
DigitChar(n) == Ascii[n + 48 - 31]

\* The string a message is: the template literals of handleApiError filled in.
MessageText(m, mimeType) ==
    CASE m.kind = "RateLimitExceeded" ->
            TextRateLimitExceeded
                \o (IF m.retryAfter # << >>
                    THEN TextAfter \o m.retryAfter \o TextSeconds \o <<".">>
                    ELSE TextLater)
      [] m.kind = "InvalidApiKey" -> TextInvalidApiKey
      [] m.kind = "InsufficientQuota" -> TextInsufficientQuota
      [] m.kind = "ModelNotFound" -> TextModelNotFound
      [] m.kind = "ServerError" ->
            TextServerError
                \o (IF m.retries > 0
                    THEN TextRetry \o <<DigitChar(m.retries)>> \o <<")">>
                    ELSE << >>)
                \o <<".">>
      [] m.kind = "Raw" -> m.raw
      [] m.kind = "ApiErrorOccurred" -> TextApiErrorOccurred
      [] m.kind = "UnknownError" -> TextUnknownError
      [] m.kind = "UnsupportedFormat" ->
            TextUnsupportedFormat \o mimeType \o TextSupportedFormats
      [] OTHER -> << >>

ApiError(status, header, message) ==
    [class |-> "APIError", status |-> status, retryAfter |-> header, message |-> message]

PlainError(message) ==
    [class |-> "Error", status |-> 0, retryAfter |-> NoHeader, message |-> message]

MissingApiKey == PlainError(MsgMissingApiKey)

\* The retry-after values the upstream may send with a 429: none, a number
\* of seconds, or an HTTP date ("Wed, 21 Oct 2026 07:28:00 GMT", of which
\* parseInt reads no further than the first character).
RetryAfterSamples ==
    {NoHeader,
     Header(<<"9">>),
     Header(<<"W", "e", "d", ",", " ", "2", "1">>)}

TerminalStatuses == {401, 402, 404}

\* What the upstream call may throw: the client library raises APIError
\* objects (a connection error or timeout has no status), each with a
\* message that is not empty.
UpstreamErrors ==
    {ApiError(st, NoHeader, MsgRejected) : st \in TerminalStatuses}
    \cup {ApiError(429, h, MsgTooManyRequests) : h \in RetryAfterSamples}
    \cup {ApiError(500, NoHeader, MsgInternalServerError),
          ApiError(400, NoHeader, MsgBadRequest),
          ApiError(400, NoHeader, MsgInvalidImage),
          ApiError(0, NoHeader, MsgTimedOut),
          PlainError(MsgFetchFailed)}

(***************************************************************************)
(* parseExtractionResponse and its heuristics (src/lib/openai.ts, lines    *)
(* 248-346). The regular expressions are evaluated on the character        *)
(* sequence: a character class is a set of code points.                    *)
(***************************************************************************)
\* \s, which is also what String.prototype.trim removes.
WhiteSpaceCodes ==
    {9, 10, 11, 12, 13, 32, 160, 5760, 8232, 8233, 8239, 8287, 12288, 65279}
        \cup (8192..8202)
\* \d
DigitCodes == 48..57
\* [a-z] and [a-zA-Z] (the same class under the i flag)
LetterCodes == (65..90) \cup (97..122)
\* \w
WordCodes == LetterCodes \cup DigitCodes \cup {95}
\* . , ! ? ; :
PunctuationCodes == {46, 44, 33, 63, 59, 58}
\* ( ) [ ] { } - ' " / \
BracketCodes == {40, 41, 91, 93, 123, 125, 45, 39, 34, 47, 92}

InClass(c, codes) == CodePoint(c) \in codes

\* RegExp.prototype.test of a one-character class.
TestClass(text, codes) == \E i \in 1..Len(text) : InClass(text[i], codes)

\* Where the longest run of characters of a class that starts at i ends
\* (the position after its last character; i itself when the run is empty).
RunEnd(s, i, codes) ==
    LET stops == {j \in i..Len(s) : ~InClass(s[j], codes)}
    IN  IF stops = {} THEN Len(s) + 1 ELSE MinOf(stops)

LanguageLabel == <<"L", "A", "N", "G", "U", "A", "G", "E", ":">>
ConfidenceLabel == <<"C", "O", "N", "F", "I", "D", "E", "N", "C", "E", ":">>

\* The literal part of a pattern with the i flag, at position i of s.
LabelAt(s, i, label) ==
    /\ i + Len(label) - 1 <= Len(s)
    /\ \A j \in 1..Len(label) : LowerChar(s[i + j - 1]) = LowerChar(label[j])

NoMatch == [found |-> FALSE, start |-> 0, from |-> 0, to |-> 0, stop |-> 0]

\* /LANGUAGE:\s*([a-z]{2,3})/i tried at position i: the group is s[from..to-1].
LanguageAt(s, i) ==
    LET from == RunEnd(s, i + Len(LanguageLabel), WhiteSpaceCodes)
        run == RunEnd(s, from, LetterCodes) - from
        to == from + (IF run > 3 THEN 3 ELSE run)
    IN  [found |-> LabelAt(s, i, LanguageLabel) /\ run >= 2,
         start |-> i, from |-> from, to |-> to,
         stop |-> RunEnd(s, to, WhiteSpaceCodes)]

\* /CONFIDENCE:\s*(\d+(?:\.\d+)?)/i tried at position i.
ConfidenceAt(s, i) ==
    LET from == RunEnd(s, i + Len(ConfidenceLabel), WhiteSpaceCodes)
        whole == RunEnd(s, from, DigitCodes)
        fraction == IF whole <= Len(s) /\ s[whole] = "."
                    THEN RunEnd(s, whole + 1, DigitCodes) ELSE whole
        to == IF fraction > whole + 1 THEN fraction ELSE whole
    IN  [found |-> LabelAt(s, i, ConfidenceLabel) /\ whole > from,
         start |-> i, from |-> from, to |-> to,
         stop |-> RunEnd(s, to, WhiteSpaceCodes)]

\* String.prototype.match without the g flag: the leftmost match.
LanguageMatch(s) ==
    LET starts == {i \in 1..Len(s) :
                      LabelAt(s, i, LanguageLabel) /\ LanguageAt(s, i).found}
    IN  IF starts = {} THEN NoMatch ELSE LanguageAt(s, MinOf(starts))

ConfidenceMatch(s) ==
    LET starts == {i \in 1..Len(s) :
                      LabelAt(s, i, ConfidenceLabel) /\ ConfidenceAt(s, i).found}
    IN  IF starts = {} THEN NoMatch ELSE ConfidenceAt(s, MinOf(starts))

Group1(s, m) == SubSeq(s, m.from, m.to - 1)

\* String.prototype.replace(pattern, "") without the g flag: the leftmost
\* match, with the white space that follows it, is cut out.
ReplaceFirst(s, m) ==
    IF m.found THEN SubSeq(s, 1, m.start - 1) \o SubSeq(s, m.stop, Len(s)) ELSE s

\* String.prototype.trim.
Trim(s) ==
    LET keep == {i \in 1..Len(s) : ~InClass(s[i], WhiteSpaceCodes)}
    IN  IF keep = {} THEN << >> ELSE SubSeq(s, MinOf(keep), MaxOf(keep))

\* A JavaScript number that is a decimal fraction: num / den, den a power of
\* ten, in lowest such terms.
RECURSIVE Decimal(_, _)
Decimal(num, den) ==
    IF den > 1 /\ num % 10 = 0 THEN Decimal(num \div 10, den \div 10)
    ELSE [num |-> num, den |-> den]

\* parseFloat of a string that matches \d+(?:\.\d+)?.
parseFloat(s) ==
    LET whole == RunEnd(s, 1, DigitCodes) - 1
        digits == Len(s) - whole - 1
    IN  IF whole = Len(s) THEN Decimal(DecimalValue(s, whole), 1)
        ELSE Decimal(DecimalValue(s, whole) * (10 ^ digits)
                        + DecimalValue(SubSeq(s, whole + 2, Len(s)), digits),
                     10 ^ digits)
\* Language codes, as the strings the code returns.
LangZh == <<"z", "h">>
LangJa == <<"j", "a">>
LangKo == <<"k", "o">>
LangAr == <<"a", "r">>
LangRu == <<"r", "u">>
LangTh == <<"t", "h">>
LangHe == <<"h", "e">>
LangEn == <<"e", "n">>

\* The Unicode ranges of lines 298-310.
CjkCodes == 19968..40959                          \* 4e00-9fff
KanaCodes == (12352..12447) \cup (12448..12543)   \* 3040-309f, 30a0-30ff
HangulCodes == 44032..55203                       \* ac00-d7a3
ArabicCodes == 1536..1791                         \* 0600-06ff
CyrillicCodes == 1024..1279                       \* 0400-04ff
ThaiCodes == 3584..3711                           \* 0e00-0e7f
HebrewCodes == 1424..1535                         \* 0590-05ff

detectLanguageCyrillicFirst(text) ==
    IF TestClass(text, CyrillicCodes) THEN LangRu
    ELSE IF TestClass(text, CjkCodes) THEN LangZh
    ELSE IF TestClass(text, KanaCodes) THEN LangJa
    ELSE IF TestClass(text, HangulCodes) THEN LangKo
    ELSE IF TestClass(text, ArabicCodes) THEN LangAr
    ELSE IF TestClass(text, ThaiCodes) THEN LangTh
    ELSE IF TestClass(text, HebrewCodes) THEN LangHe
    ELSE LangEn

\* Lines 296-314.
detectLanguageFromText(text) ==
    IF TestClass(text, CjkCodes) THEN LangZh
    ELSE IF TestClass(text, KanaCodes) THEN LangJa
    ELSE IF TestClass(text, HangulCodes) THEN LangKo
    ELSE IF TestClass(text, ArabicCodes) THEN LangAr
    ELSE IF TestClass(text, CyrillicCodes) THEN LangRu
    ELSE IF TestClass(text, ThaiCodes) THEN LangTh
    ELSE IF TestClass(text, HebrewCodes) THEN LangHe
    ELSE LangEn

\* The class the garbledPattern of line 342 negates.
PlausibleCodes ==
    WordCodes \cup WhiteSpaceCodes \cup (192..383) \cup CjkCodes
        \cup (12352..12543) \cup HangulCodes \cup PunctuationCodes \cup BracketCodes

garbledPattern(text) == \E i \in 1..Len(text) : ~InClass(text[i], PlausibleCodes)

\* Lines 324-343: the score before it is clamped.
ConfidenceScore(text) ==
    80 + (IF Len(text) > 10 THEN 5 ELSE 0)
       + (IF Len(text) > 50 THEN 5 ELSE 0)
       + (IF Len(text) > 100 THEN 5 ELSE 0)
       + (IF TestClass(text, LetterCodes) /\ TestClass(text, WhiteSpaceCodes)
          THEN 5 ELSE 0)
       + (IF TestClass(text, DigitCodes) THEN 2 ELSE 0)
       + (IF TestClass(text, PunctuationCodes) THEN 3 ELSE 0)
       - (IF garbledPattern(text) /\ Len(text) < 20 THEN 10 ELSE 0)

estimateConfidenceUnclamped(text) ==
    IF Len(text) = 0 THEN 0 ELSE ConfidenceScore(text)

\* Lines 321-346.
estimateConfidence(text) ==
    IF Len(text) = 0 THEN 0
    ELSE Min2(100, Max2(0, ConfidenceScore(text)))

\* A const of the source: the value of e, computed once, under the name F
\* gives it.
Once(e, F(_)) == CHOOSE r \in {F(x) : x \in {e}} : TRUE

\* Lines 248-289.
parseExtractionResponse(text) ==
    Once(LanguageMatch(text), LAMBDA languageMatch :
    Once(ConfidenceMatch(text), LAMBDA confidenceMatch :
    Once(IF languageMatch.found THEN ReplaceFirst(text, languageMatch) ELSE text,
         LAMBDA afterLanguage :
    Once(IF confidenceMatch.found
         THEN ReplaceFirst(afterLanguage, ConfidenceMatch(afterLanguage))
         ELSE afterLanguage,
         LAMBDA afterConfidence :
    Once(Trim(afterConfidence), LAMBDA extractedText :
        [extractedText |-> extractedText,
         language |-> IF languageMatch.found
                      THEN toLowerCase(Group1(text, languageMatch))
                      ELSE detectLanguageFromText(extractedText),
         confidence |-> IF confidenceMatch.found
                        THEN parseFloat(Group1(text, confidenceMatch))
                        ELSE Decimal(estimateConfidence(extractedText), 1)])))))

NoResult == [extractedText |-> << >>, language |-> << >>, confidence |-> Decimal(0, 1)]

(***************************************************************************)
(* Model responses: a response is pieces joined by line breaks, a piece    *)
(* being plain text or a marker (a label, a space and a value).            *)
(***************************************************************************)
TextPart(chars) == [kind |-> "text", chars |-> chars, value |-> << >>]
LanguagePart(label, value) ==
    [kind |-> "language", chars |-> label \o <<" ">> \o value, value |-> value]
ConfidencePart(label, value) ==
    [kind |-> "confidence", chars |-> label \o <<" ">> \o value, value |-> value]

RECURSIVE Repeat(_, _)
Repeat(s, n) == IF n = 0 THEN << >> ELSE s \o Repeat(s, n - 1)

RECURSIVE Join(_)
Join(ps) ==
    IF ps = << >> THEN << >>
    ELSE IF Len(ps) = 1 THEN ps[1].chars
    ELSE ps[1].chars \o <<"\n">> \o Join(Tail(ps))

\* "Hi"
TextHi == <<"H", "i">>

\* "Hello, world 42."
TextGreeting ==
    <<"H", "e", "l", "l", "o", ",", " ", "w", "o", "r", "l", "d", " ", "4",
      "2", ".">>

\* "Total: 42 items. "
TextItems ==
    <<"T", "o", "t", "a", "l", ":", " ", "4", "2", " ", "i", "t", "e", "m",
      "s", ".", " ">>

\* "english"
ValueEnglish == <<"e", "n", "g", "l", "i", "s", "h">>

\* "high"
ValueHigh == <<"h", "i", "g", "h">>

\* "fr"
ValueFr == <<"f", "r">>

\* "DE"
ValueDeUpper == <<"D", "E">>

\* "95"
Value95 == <<"9", "5">>

\* "99.5"
Value99Point5 == <<"9", "9", ".", "5">>

\* "150"
Value150 == <<"1", "5", "0">>

\* 51 characters: letters, white space, digits and punctuation.
TextInvoice == Repeat(TextItems, 3)
TextSpace == <<" ">>
TextGarbled == <<"U+00A7", "U+00A7">>
TextCjk == <<"U+4E2D">>
TextKana == <<"U+3042", "U+30A2">>
TextHangul == <<"U+D55C">>
TextArabic == <<"U+0634">>
TextCyrillic == <<"U+0416">>
TextThai == <<"U+0E01">>
TextHebrew == <<"U+05D0">>

\* How many pieces a response has at most.
MaxParts == 3

SeqsUpTo(S, n) == UNION {[1..k -> S] : k \in 0..n}

\* The texts the heuristics are applied to.
HeuristicParts ==
    {TextPart(t) : t \in {EmptyString, TextSpace, TextHi, TextGreeting, TextInvoice,
                          TextGarbled, TextCjk, TextCyrillic}}

\* The responses parseExtractionResponse is applied to.
ResponseParts ==
    {TextPart(t) : t \in {TextHi, TextCjk, TextKana, TextHangul, TextArabic,
                          TextCyrillic, TextThai, TextHebrew}}
    \cup {LanguagePart(LanguageLabel, ValueFr),
          LanguagePart(toLowerCase(LanguageLabel), ValueDeUpper),
          LanguagePart(LanguageLabel, ValueEnglish)}
    \cup {ConfidencePart(ConfidenceLabel, Value95),
          ConfidencePart(toLowerCase(ConfidenceLabel), ValueHigh)}

NoApplied == [estimate |-> -1, language |-> << >>]

\* parseExtractionResponse(fullText).
Parse ==
    /\ result = NoResult
    /\ result' = parseExtractionResponse(fullText)
    /\ UNCHANGED <<parts, fullText, reparsed, applied>>
    /\ UNCHANGED <<rlVars, exVars, rtVars, dbVars, cnVars>>

\* parseExtractionResponse applied to the text it returned.
Reparse ==
    /\ result # NoResult
    /\ reparsed = NoResult
    /\ reparsed' = parseExtractionResponse(result.extractedText)
    /\ UNCHANGED <<parts, fullText, result, applied>>
    /\ UNCHANGED <<rlVars, exVars, rtVars, dbVars, cnVars>>

\* estimateConfidence(fullText).
EstimateConfidence ==
    /\ applied.estimate = -1
    /\ applied' = [applied EXCEPT !.estimate = estimateConfidence(fullText)]
    /\ UNCHANGED <<parts, fullText, result, reparsed>>
    /\ UNCHANGED <<rlVars, exVars, rtVars, dbVars, cnVars>>

\* detectLanguageFromText(fullText).
DetectLanguage ==
    /\ applied.language = << >>
    /\ applied' = [applied EXCEPT !.language = detectLanguageFromText(fullText)]
    /\ UNCHANGED <<parts, fullText, result, reparsed>>
    /\ UNCHANGED <<rlVars, exVars, rtVars, dbVars, cnVars>>

(***************************************************************************)
(* extractTextFromImage (src/lib/openai.ts, lines 401-531)                 *)
(***************************************************************************)
maxRetriesOneMore == 3 + 1
maxRetries == 3

NoWait == [set |-> FALSE, ms |-> NaN]
Wait(ms) == [set |-> TRUE, ms |-> ms]

NoError == [class |-> "none", status |-> 0, retryAfter |-> NoHeader, message |-> ""]

NoOutcome == [status |-> "none", message |-> Message("none")]

\* Line 499: the statuses that are never retried.
IsTerminalAuthOnly(error) == error.class = "APIError" /\ error.status = 401
IsTerminal(error) == error.class = "APIError" /\ error.status \in TerminalStatuses

\* Line 504: a rate-limit error with a retry left.
RetriesRateLimit(error, k) ==
    error.class = "APIError" /\ error.status = 429 /\ k < maxRetries - 1

\* Lines 505-508: the wait after a rate-limit error.
RateLimitWait(error, k) ==
    IF Truthy(error.retryAfter)
    THEN Times1000(parseInt(error.retryAfter.value))
    ELSE Num(Pow2(k) * 1000)

\* Line 521: the wait after any other retried error.
BackoffConstant(k) == Num(1000)
Backoff(k) == Num(Pow2(k) * 1000)

IsLastAttemptNever(k) == FALSE
\* Line 515: the last attempt.
IsLastAttempt(k) == k = maxRetries - 1

\* Lines 494-523: what the catch block does with the error of attempt k:
\* it throws a message, or awaits a timer and goes round the loop.
Catch(error, k) ==
    IF IsTerminal(error)
    THEN [throws |-> TRUE, message |-> handleApiError(error, 0), wait |-> NoWait]
    ELSE IF RetriesRateLimit(error, k)
    THEN [throws |-> FALSE, message |-> Message("none"),
          wait |-> Wait(RateLimitWait(error, k))]
    ELSE IF IsLastAttempt(k)
    THEN [throws |-> TRUE, message |-> handleApiError(error, k), wait |-> NoWait]
    ELSE [throws |-> FALSE, message |-> Message("none"), wait |-> Wait(Backoff(k))]

\* The data URL of line 469: the MIME type and the bytes sent.
DataUrl == [mimeType |-> processed.mimeType, buffer |-> processed.buffer]

\* Lines 407-412.
Validate ==
    /\ pc = "validate"
    /\ IF validateImageFormat(input.mimeType)
       THEN /\ pc' = "compress"
            /\ cpc' = "entry"
            /\ outcome' = outcome
       ELSE /\ pc' = "threw"
            /\ cpc' = cpc
            /\ outcome' = [status |-> "threw", message |-> Message("UnsupportedFormat")]
    /\ UNCHANGED <<input, image, processed, attempt, requests, waits, events>>
    /\ UNCHANGED <<rlVars, pxVars, rtVars, dbVars, cnVars>>

\* Lines 428-439: the processed buffer and MIME type are taken over.
\* (compressImageIfNeeded catches every error itself, so the catch of line
\* 433 has nothing to catch.)
TakeProcessed ==
    /\ pc = "compress"
    /\ cpc = "done"
    /\ pc' = "request"
    /\ attempt' = 0
    /\ UNCHANGED <<input, cpc, image, processed, requests, waits, events, outcome>>
    /\ UNCHANGED <<rlVars, pxVars, rtVars, dbVars, cnVars>>

\* The catch block of lines 494-523 for the error of the current attempt.
Caught(error, issued) ==
    LET c == Catch(error, attempt)
    IN  /\ events' = Append(events,
                        [try |-> attempt, ok |-> FALSE, issued |-> issued,
                         error |-> error, wait |-> c.wait])
        /\ IF c.throws
           THEN /\ pc' = "threw"
                /\ outcome' = [status |-> "threw", message |-> c.message]
                /\ waits' = waits
           ELSE /\ pc' = "wait"
                /\ outcome' = outcome
                /\ waits' = Append(waits, c.wait.ms)

\* What the model may answer: plain text, text with both markers, text with
\* a confidence beyond the scale, nothing at all.
ModelResponses ==
    {<<TextPart(TextHi)>>,
     <<TextPart(TextGreeting), LanguagePart(LanguageLabel, ValueFr),
       ConfidencePart(ConfidenceLabel, Value99Point5)>>,
     <<TextPart(TextHi), ConfidencePart(ConfidenceLabel, Value150)>>,
     << >>}

\* Lines 456-493: the upstream request of this attempt succeeds and its
\* content is parsed.
UpstreamSucceeds ==
    /\ pc = "request"
    /\ attempt < maxRetries
    /\ input.apiKey
    /\ \E ps \in ModelResponses :
          /\ parts' = ps
          /\ fullText' = Join(ps)
          /\ result' = parseExtractionResponse(Join(ps))
    /\ requests' = Append(requests, DataUrl)
    /\ events' = Append(events,
                    [try |-> attempt, ok |-> TRUE, issued |-> TRUE,
                     error |-> NoError, wait |-> NoWait])
    /\ pc' = "returned"
    /\ outcome' = [status |-> "returned", message |-> Message("none")]
    /\ UNCHANGED <<input, cpc, image, processed, attempt, waits>>
    /\ UNCHANGED <<reparsed, applied>>
    /\ UNCHANGED <<rlVars, rtVars, dbVars, cnVars>>

\* Lines 456-523: the upstream request of this attempt fails with error.
UpstreamFails(error) ==
    /\ pc = "request"
    /\ attempt < maxRetries
    /\ input.apiKey
    /\ requests' = Append(requests, DataUrl)
    /\ Caught(error, TRUE)
    /\ UNCHANGED <<input, cpc, image, processed, attempt>>
    /\ UNCHANGED <<rlVars, pxVars, rtVars, dbVars, cnVars>>

\* Lines 10-19 and 456: without an API key the client getter throws before
\* any request is made.
ClientInitFails ==
    /\ pc = "request"
    /\ attempt < maxRetries
    /\ ~input.apiKey
    /\ Caught(MissingApiKey, FALSE)
    /\ UNCHANGED <<input, cpc, image, processed, attempt, requests>>
    /\ UNCHANGED <<rlVars, pxVars, rtVars, dbVars, cnVars>>

\* Lines 509-510 and 520-524: the timer fires and the loop goes round; the
\* throw of lines 526-530 follows a loop that ran out.
TimerFires ==
    /\ pc = "wait"
    /\ attempt' = attempt + 1
    /\ IF attempt + 1 < maxRetries
       THEN /\ pc' = "request"
            /\ outcome' = outcome
       ELSE /\ pc' = "threw"
            /\ outcome' = [status |-> "threw",
                           message |-> handleApiError(events[Len(events)].error,
                                                      maxRetries)]
    /\ UNCHANGED <<input, cpc, image, processed, requests, waits, events>>
    /\ UNCHANGED <<rlVars, pxVars, rtVars, dbVars, cnVars>>

\* The arguments of one extractTextFromImage call.
RouteOptions == [maxSize |-> 10 * 1024 * 1024, maxDimension |-> 2048, quality |-> 85]
NoOptions == [maxSize |-> 0, maxDimension |-> 0, quality |-> 0]

MakeInput(mimeType, len, dims, opts, apiKey) ==
    [mimeType |-> mimeType, len |-> len, width |-> dims[1], height |-> dims[2],
     opts |-> opts, apiKey |-> apiKey]

NoInput == MakeInput(EmptyString, 0, <<0, 0>>, NoOptions, FALSE)

(***************************************************************************)
(* MongoDB adapter (part_001: connectToDatabase, saveScreenshot,           *)
(* getScreenshotHistory, getScreenshotById, deleteScreenshot) and          *)
(* ScreenshotModel (part_002), which forwards to it. An adapter call is    *)
(* one action; env says what the database does during the call.           *)
(***************************************************************************)
\* [0-9A-Fa-f]
HexCodes == (48..57) \cup (65..70) \cup (97..102)

\* new ObjectId(id) accepts, and ObjectId.isValid(id) is true of, a string of
\* 24 hexadecimal characters.
ObjectIdValid(id) == Len(id) = 24 /\ \A i \in 1..Len(id) : InClass(id[i], HexCodes)

\* The identifiers insertOne may assign, and the identifiers callers pass.
IdA == Repeat(<<"a">>, 24)
IdB == Repeat(<<"b">>, 24)
IdNotHex == Repeat(<<"z">>, 24)
IdShort == <<"4", "2">>
IdPool == {IdA, IdB}
IdSamples == IdPool \cup {IdNotHex, IdShort, EmptyString}

\* What the database does during one call: whether the ping of a cached
\* client answers, which connection attempt succeeds (0: none), whether the
\* operation itself succeeds, and whether the read after an insert succeeds.
DbHealthy == [ping |-> TRUE, connects |-> 1, op |-> TRUE, readback |-> TRUE]
DbEnvs ==
    {DbHealthy,
     [DbHealthy EXCEPT !.ping = FALSE],
     [DbHealthy EXCEPT !.ping = FALSE, !.connects = 2],
     [DbHealthy EXCEPT !.ping = FALSE, !.connects = 0],
     [DbHealthy EXCEPT !.op = FALSE],
     [DbHealthy EXCEPT !.readback = FALSE]}

\* Lines 28-82: the cached client is reused when its ping answers; otherwise
\* two connection attempts are made, 1000 * (4 - 1) ms apart.
connectToDatabase(cached, env) ==
    IF cached /\ env.ping THEN [ok |-> TRUE, cached |-> TRUE, waits |-> << >>]
    ELSE IF env.connects = 1 THEN [ok |-> TRUE, cached |-> TRUE, waits |-> << >>]
    ELSE IF env.connects = 2
    THEN [ok |-> TRUE, cached |-> TRUE, waits |-> <<1000 * (4 - 1)>>]
    ELSE [ok |-> FALSE, cached |-> FALSE, waits |-> <<1000 * (4 - 1)>>]

Ids(coll) == {r._id : r \in coll}
Null == [_id |-> << >>]

\* What an adapter call comes to: it throws or returns value; failed says
\* that the database failed during the call.
Threw(coll, cached) ==
    [threw |-> TRUE, value |-> FALSE, failed |-> TRUE, collection |-> coll,
     cached |-> cached]
Returned(value, failed, coll) ==
    [threw |-> FALSE, value |-> value, failed |-> failed, collection |-> coll,
     cached |-> TRUE]

\* Lines 121-139; id is the _id insertOne assigns, at the createdAt.
saveScreenshot(coll, cached, data, id, at, env) ==
    LET c == connectToDatabase(cached, env)
        created == [_id |-> id, extractedText |-> data.extractedText,
                    language |-> data.language, confidence |-> data.confidence,
                    createdAt |-> at]
    IN  IF ~c.ok THEN Threw(coll, c.cached)
        ELSE IF ~env.op THEN Threw(coll, TRUE)
        ELSE IF ~env.readback THEN Threw(coll \cup {created}, TRUE)
        ELSE Returned(created, FALSE, coll \cup {created})

\* find({}).sort({createdAt: -1}).limit(limit).toArray(): the records, latest
\* first, in any order among equal dates.
RECURSIVE Listings(_)
Listings(coll) ==
    IF coll = {} THEN {<< >>}
    ELSE UNION {{<<r>> \o rest : rest \in Listings(coll \ {r})} :
                   r \in {x \in coll : \A y \in coll : y.createdAt <= x.createdAt}}

\* Lines 144-150.
getScreenshotHistory(coll, cached, limit, listing, env) ==
    LET c == connectToDatabase(cached, env)
    IN  IF ~c.ok THEN Threw(coll, c.cached)
        ELSE IF ~env.op THEN Threw(coll, TRUE)
        ELSE Returned(SubSeq(listing, 1, Min2(limit, Len(listing))), FALSE, coll)

\* Lines 155-167: the promise of findOne is returned without being awaited,
\* so the catch sees the ObjectId constructor's error only.
getScreenshotById(coll, cached, id, env) ==
    LET c == connectToDatabase(cached, env)
    IN  IF ~c.ok THEN Threw(coll, c.cached)
        ELSE IF ~ObjectIdValid(id) THEN Returned(Null, FALSE, coll)
        ELSE IF ~env.op THEN Threw(coll, TRUE)
        ELSE IF id \in Ids(coll)
        THEN Returned(CHOOSE r \in coll : r._id = id, FALSE, coll)
        ELSE Returned(Null, FALSE, coll)

\* Lines 179-182: what the catch of deleteScreenshot makes of an error.
DeleteCaughtRethrows(coll, failed) == [Threw(coll, TRUE) EXCEPT !.failed = failed]
DeleteCaught(coll, failed) == Returned(FALSE, failed, coll)

\* Lines 172-183: the catch sees the ObjectId constructor's error and the
\* error of deleteOne alike.
deleteScreenshot(coll, cached, id, env) ==
    LET c == connectToDatabase(cached, env)
    IN  IF ~c.ok THEN Threw(coll, c.cached)
        ELSE IF ~ObjectIdValid(id) THEN DeleteCaught(coll, FALSE)
        ELSE IF ~env.op THEN DeleteCaught(coll, TRUE)
        ELSE Returned(id \in Ids(coll), FALSE, {r \in coll : r._id # id})

\* The record of a call: who called (via), with which id, whether a record
\* of that id was stored, and whether the call changed the collection.
NoDbResult ==
    [op |-> "none", via |-> "none", id |-> << >>, present |-> FALSE,
     env |-> DbHealthy, threw |-> FALSE, value |-> FALSE, failed |-> FALSE,
     changed |-> FALSE]

DbResult(op, via, id, env, r) ==
    [op |-> op, via |-> via, id |-> id, present |-> id \in Ids(collection),
     env |-> env, threw |-> r.threw, value |-> r.value, failed |-> r.failed,
     changed |-> r.collection # collection]

\* The records callers create.
RecordSamples ==
    {[extractedText |-> TextHi, language |-> LangEn, confidence |-> Decimal(80, 1)]}

\* ScreenshotModel.create(data).
Create(data) ==
    \E env \in DbEnvs, id \in IdPool \ Ids(collection) :
        LET r == saveScreenshot(collection, cachedClient, data, id, now, env)
        IN  /\ collection' = r.collection
            /\ cachedClient' = r.cached
            /\ dbResult' = DbResult("create", "model", id, env, r)
            /\ UNCHANGED <<rlVars, exVars, pxVars, rtVars, cnVars>>

\* ScreenshotModel.findAll(limit).
FindAll(limit) ==
    \E env \in DbEnvs, listing \in Listings(collection) :
        LET r == getScreenshotHistory(collection, cachedClient, limit, listing, env)
        IN  /\ collection' = r.collection
            /\ cachedClient' = r.cached
            /\ dbResult' = DbResult("list", "model", << >>, env, r)
            /\ UNCHANGED <<rlVars, exVars, pxVars, rtVars, cnVars>>

\* ScreenshotModel.findById(id).
FindById(id) ==
    \E env \in DbEnvs :
        LET r == getScreenshotById(collection, cachedClient, id, env)
        IN  /\ collection' = r.collection
            /\ cachedClient' = r.cached
            /\ dbResult' = DbResult("lookup", "model", id, env, r)
            /\ UNCHANGED <<rlVars, exVars, pxVars, rtVars, cnVars>>

\* ScreenshotModel.deleteById(id).
DeleteById(id) ==
    \E env \in DbEnvs :
        LET r == deleteScreenshot(collection, cachedClient, id, env)
        IN  /\ collection' = r.collection
            /\ cachedClient' = r.cached
            /\ dbResult' = DbResult("delete", "model", id, env, r)
            /\ UNCHANGED <<rlVars, exVars, pxVars, rtVars, cnVars>>

(***************************************************************************)
(* connectToDatabase step by step (part_001, lines 16-82): the calls of    *)
(* concurrent requests interleave at its awaits (the ping, connect,        *)
(* the backoff timer, ensureIndexes). A client is a number, 0 is null.     *)
(***************************************************************************)
Callers == {1, 2}

\* At most this many calls are started.
MaxConnectCalls == 3

\* Line 43.
ConnectRetriesOneMore == 2 + 1
ConnectRetries == 2

IdleCall ==
    [pc |-> "idle", nth |-> 0, cacheAtStart |-> 0, pinged |-> 0, pingFailed |-> FALSE,
     retries |-> 0, attempts |-> 0, client |-> 0, waits |-> << >>, result |-> 0]

InProgress(c) == connectCalls[c].pc \in {"ping", "connect", "backoff", "indexes"}

\* Lines 47-53: the loop body up to its await: a new MongoClient is made and
\* connect() is called on it.
StartAttempt(call, id) ==
    [call EXCEPT !.pc = "connect", !.client = id, !.attempts = @ + 1]

\* Lines 28-43: with a cached client the call awaits its ping; without one it
\* goes to the loop with its retries.
ConnectBegin(c) ==
    /\ connectCalls[c].pc \in {"idle", "returned", "threw"}
    /\ callsStarted < MaxConnectCalls
    /\ callsStarted' = callsStarted + 1
    /\ IF clientCache # 0
       THEN /\ connectCalls' =
                  [connectCalls EXCEPT ![c] =
                      [IdleCall EXCEPT !.pc = "ping", !.nth = callsStarted + 1,
                                       !.cacheAtStart = clientCache,
                                       !.retries = ConnectRetries]]
            /\ UNCHANGED clientsCreated
       ELSE /\ connectCalls' =
                  [connectCalls EXCEPT ![c] =
                      StartAttempt([IdleCall EXCEPT !.nth = callsStarted + 1,
                                                    !.retries = ConnectRetries],
                                   clientsCreated + 1)]
            /\ clientsCreated' = clientsCreated + 1
    /\ UNCHANGED <<clientCache, connectedClients>>
    /\ UNCHANGED <<rlVars, exVars, pxVars, rtVars, dbVars>>

\* Lines 33-34: the ping answers and the call returns what the cache holds
\* at that moment.
PingAnswers(c) ==
    /\ connectCalls[c].pc = "ping"
    /\ connectCalls' =
          [connectCalls EXCEPT ![c] =
              [@ EXCEPT !.pc = "returned", !.pinged = connectCalls[c].cacheAtStart,
                        !.result = clientCache]]
    /\ UNCHANGED <<clientCache, clientsCreated, connectedClients, callsStarted>>
    /\ UNCHANGED <<rlVars, exVars, pxVars, rtVars, dbVars>>

\* Lines 35-53: the ping fails, the cache is reset and the loop is entered.
PingFails(c) ==
    /\ connectCalls[c].pc = "ping"
    /\ clientCache' = 0
    /\ connectCalls' =
          [connectCalls EXCEPT ![c] =
              StartAttempt([@ EXCEPT !.pingFailed = TRUE], clientsCreated + 1)]
    /\ clientsCreated' = clientsCreated + 1
    /\ UNCHANGED <<connectedClients, callsStarted>>
    /\ UNCHANGED <<rlVars, exVars, pxVars, rtVars, dbVars>>

\* Lines 55-63: connect() succeeded: the client is cached and ensureIndexes
\* is awaited.
ConnectSucceeds(c) ==
    /\ connectCalls[c].pc = "connect"
    /\ clientCache' = connectCalls[c].client
    /\ connectedClients' = connectedClients \cup {connectCalls[c].client}
    /\ connectCalls' = [connectCalls EXCEPT ![c] = [@ EXCEPT !.pc = "indexes"]]
    /\ UNCHANGED <<clientsCreated, callsStarted>>
    /\ UNCHANGED <<rlVars, exVars, pxVars, rtVars, dbVars>>

\* Lines 63-65 (ensureIndexes catches its own errors, lines 103-115): the
\* call returns the client it connected.
IndexesDone(c) ==
    /\ connectCalls[c].pc = "indexes"
    /\ connectCalls' =
          [connectCalls EXCEPT ![c] =
              [@ EXCEPT !.pc = "returned", !.result = connectCalls[c].client]]
    /\ UNCHANGED <<clientCache, clientsCreated, connectedClients, callsStarted>>
    /\ UNCHANGED <<rlVars, exVars, pxVars, rtVars, dbVars>>

\* Lines 66-81: connect() failed: with a retry left the call awaits
\* 1000 * (4 - retries) ms, without one it leaves the loop and throws.
ConnectFails(c) ==
    /\ connectCalls[c].pc = "connect"
    /\ LET call == connectCalls[c]
           retries == call.retries - 1
       IN  connectCalls' =
              [connectCalls EXCEPT ![c] =
                  IF retries > 0
                  THEN [call EXCEPT !.pc = "backoff", !.retries = retries,
                                    !.waits = Append(@, 1000 * (4 - retries))]
                  ELSE [call EXCEPT !.pc = "threw", !.retries = retries]]
    /\ UNCHANGED <<clientCache, clientsCreated, connectedClients, callsStarted>>
    /\ UNCHANGED <<rlVars, exVars, pxVars, rtVars, dbVars>>

\* Lines 72-75 and 46-53: the timer fires and the loop goes round.
BackoffEnds(c) ==
    /\ connectCalls[c].pc = "backoff"
    /\ connectCalls' =
          [connectCalls EXCEPT ![c] = StartAttempt(@, clientsCreated + 1)]
    /\ clientsCreated' = clientsCreated + 1
    /\ UNCHANGED <<clientCache, connectedClients, callsStarted>>
    /\ UNCHANGED <<rlVars, exVars, pxVars, rtVars, dbVars>>

\* A call of c goes on.
ConnectStep(c) ==
    \/ PingAnswers(c)
    \/ PingFails(c)
    \/ ConnectSucceeds(c)
    \/ IndexesDone(c)
    \/ ConnectFails(c)
    \/ BackoffEnds(c)

(***************************************************************************)
(* The endpoints: POST /api/ocr (part_004, lines 82-358) and DELETE        *)
(* /api/history (part_003, lines 77-145). An envelope is the JSON body of  *)
(* a response with its HTTP status; cause is the place that returned it.   *)
(***************************************************************************)
MAX_FILE_SIZE == 10 * 1024 * 1024
ALLOWED_FORMATS == {ImagePng, ImageJpeg, ImageJpg, ImageWebp}

\* The fixed texts of the responses.
\* "Rate limit exceeded. Maximum "
TextRouteRateLimit ==
    <<"R", "a", "t", "e", " ", "l", "i", "m", "i", "t", " ", "e", "x", "c",
      "e", "e", "d", "e", "d", ".", " ", "M", "a", "x", "i", "m", "u", "m",
      " ">>

\* " requests per minute. Try again after "
TextPerMinute ==
    <<" ", "r", "e", "q", "u", "e", "s", "t", "s", " ", "p", "e", "r", " ",
      "m", "i", "n", "u", "t", "e", ".", " ", "T", "r", "y", " ", "a", "g",
      "a", "i", "n", " ", "a", "f", "t", "e", "r", " ">>

\* "Invalid request format. Expected multipart/form-data."
TextInvalidForm ==
    <<"I", "n", "v", "a", "l", "i", "d", " ", "r", "e", "q", "u", "e", "s",
      "t", " ", "f", "o", "r", "m", "a", "t", ".", " ", "E", "x", "p", "e",
      "c", "t", "e", "d", " ", "m", "u", "l", "t", "i", "p", "a", "r", "t",
      "/", "f", "o", "r", "m", "-", "d", "a", "t", "a", ".">>

\* "No image file provided"
TextNoImage ==
    <<"N", "o", " ", "i", "m", "a", "g", "e", " ", "f", "i", "l", "e", " ",
      "p", "r", "o", "v", "i", "d", "e", "d">>

\* "File size exceeds limit of 10MB. Received: "
TextFileTooLarge ==
    <<"F", "i", "l", "e", " ", "s", "i", "z", "e", " ", "e", "x", "c", "e",
      "e", "d", "s", " ", "l", "i", "m", "i", "t", " ", "o", "f", " ", "1",
      "0", "M", "B", ".", " ", "R", "e", "c", "e", "i", "v", "e", "d", ":",
      " ">>

\* "Unsupported image format: "
TextUnsupportedType ==
    <<"U", "n", "s", "u", "p", "p", "o", "r", "t", "e", "d", " ", "i", "m",
      "a", "g", "e", " ", "f", "o", "r", "m", "a", "t", ":", " ">>

\* ". Supported formats: PNG, JPEG, WebP"
TextSupportedTypes ==
    <<".", " ", "S", "u", "p", "p", "o", "r", "t", "e", "d", " ", "f", "o",
      "r", "m", "a", "t", "s", ":", " ", "P", "N", "G", ",", " ", "J", "P",
      "E", "G", ",", " ", "W", "e", "b", "P">>

\* "Invalid image format: "
TextInvalidType ==
    <<"I", "n", "v", "a", "l", "i", "d", " ", "i", "m", "a", "g", "e", " ",
      "f", "o", "r", "m", "a", "t", ":", " ">>

\* "Failed to read uploaded file"
TextReadFailed ==
    <<"F", "a", "i", "l", "e", "d", " ", "t", "o", " ", "r", "e", "a", "d",
      " ", "u", "p", "l", "o", "a", "d", "e", "d", " ", "f", "i", "l", "e">>

\* "Failed to save result to database"
TextSaveFailed ==
    <<"F", "a", "i", "l", "e", "d", " ", "t", "o", " ", "s", "a", "v", "e",
      " ", "r", "e", "s", "u", "l", "t", " ", "t", "o", " ", "d", "a", "t",
      "a", "b", "a", "s", "e">>

\* "No ID provided. Provide ID in query parameter (?id=...) or request body ({ id: '...' })"
TextNoId ==
    <<"N", "o", " ", "I", "D", " ", "p", "r", "o", "v", "i", "d", "e", "d",
      ".", " ", "P", "r", "o", "v", "i", "d", "e", " ", "I", "D", " ", "i",
      "n", " ", "q", "u", "e", "r", "y", " ", "p", "a", "r", "a", "m", "e",
      "t", "e", "r", " ", "(", "?", "i", "d", "=", ".", ".", ".", ")", " ",
      "o", "r", " ", "r", "e", "q", "u", "e", "s", "t", " ", "b", "o", "d",
      "y", " ", "(", "{", " ", "i", "d", ":", " ", "'", ".", ".", ".", "'",
      " ", "}", ")">>

\* "Invalid ID format. ID must be a valid MongoDB ObjectId"
TextInvalidId ==
    <<"I", "n", "v", "a", "l", "i", "d", " ", "I", "D", " ", "f", "o", "r",
      "m", "a", "t", ".", " ", "I", "D", " ", "m", "u", "s", "t", " ", "b",
      "e", " ", "a", " ", "v", "a", "l", "i", "d", " ", "M", "o", "n", "g",
      "o", "D", "B", " ", "O", "b", "j", "e", "c", "t", "I", "d">>

\* "Screenshot not found"
TextNotFound ==
    <<"S", "c", "r", "e", "e", "n", "s", "h", "o", "t", " ", "n", "o", "t",
      " ", "f", "o", "u", "n", "d">>

\* "Screenshot deleted successfully"
TextDeleted ==
    <<"S", "c", "r", "e", "e", "n", "s", "h", "o", "t", " ", "d", "e", "l",
      "e", "t", "e", "d", " ", "s", "u", "c", "c", "e", "s", "s", "f", "u",
      "l", "l", "y">>

\* "Failed to connect to MongoDB after retries: "
TextConnectFailed ==
    <<"F", "a", "i", "l", "e", "d", " ", "t", "o", " ", "c", "o", "n", "n",
      "e", "c", "t", " ", "t", "o", " ", "M", "o", "n", "g", "o", "D", "B",
      " ", "a", "f", "t", "e", "r", " ", "r", "e", "t", "r", "i", "e", "s",
      ":", " ">>

\* "connection timed out"
TextOperationFailed ==
    <<"c", "o", "n", "n", "e", "c", "t", "i", "o", "n", " ", "t", "i", "m",
      "e", "d", " ", "o", "u", "t">>

\* "Rate limit"
KeyRateLimit == <<"R", "a", "t", "e", " ", "l", "i", "m", "i", "t">>

\* "API key"
KeyApiKey == <<"A", "P", "I", " ", "k", "e", "y">>

\* "Invalid"
KeyInvalid == <<"I", "n", "v", "a", "l", "i", "d">>

\* "quota"
KeyQuota == <<"q", "u", "o", "t", "a">>

\* "Unsupported"
KeyUnsupported == <<"U", "n", "s", "u", "p", "p", "o", "r", "t", "e", "d">>

\* "timeout"
KeyTimeoutLower == <<"t", "i", "m", "e", "o", "u", "t">>

\* "Timeout"
KeyTimeoutUpper == <<"T", "i", "m", "e", "o", "u", "t">>

\* Date.prototype.toISOString and Number.prototype.toFixed, each written as
\* one element.
IsoDate(t) == <<"ISO-8601">>
MegaBytes(size) == <<"MB">>

NoData == [_id |-> << >>]
Envelope(success, status, error, data, cause) ==
    [success |-> success, status |-> status, error |-> error, data |-> data,
     cause |-> cause]
Failure(status, error, cause) == Envelope(FALSE, status, error, NoData, cause)

\* Line 97.
RejectedNever(res) == FALSE
Rejected(res) == ~res.allowed

RateLimitEnvelopeUnavailable(res) == Failure(503, TextRouteRateLimit, "rateLimit")
\* Lines 98-116.
RateLimitEnvelope(res) ==
    Failure(429,
            TextRouteRateLimit \o <<DigitChar(res.remaining)>> \o TextPerMinute
                \o IsoDate(res.resetTime),
            "rateLimit")

\* Lines 253-270: the status is read off the message.
StatusFor(errorMessage) ==
    IF includes(errorMessage, KeyRateLimit) THEN 429
    ELSE IF includes(errorMessage, KeyApiKey) \/ includes(errorMessage, KeyInvalid)
    THEN 401
    ELSE IF includes(errorMessage, KeyQuota) THEN 402
    ELSE IF includes(errorMessage, KeyUnsupported) THEN 400
    ELSE IF includes(errorMessage, KeyTimeoutLower)
            \/ includes(errorMessage, KeyTimeoutUpper)
    THEN 504
    ELSE 500

\* Lines 245-279: extractTextFromImage threw an Error with this message.
ExtractionFailedEnvelope(message, mimeType) ==
    Failure(StatusFor(MessageText(message, mimeType)),
            MessageText(message, mimeType), "extraction")

\* Lines 297-309.
SaveFailedReportsSuccess(r) ==
    Envelope(TRUE, 200, << >>, [_id |-> << >>], "save")
SaveFailedEnvelope(r) == Failure(500, TextSaveFailed, "save")

\* Lines 318-338.
SuccessEnvelope(extracted, screenshot) ==
    Envelope(TRUE, 200, << >>,
             [extractedText |-> extracted.extractedText,
              confidence |-> extracted.confidence,
              language |-> extracted.language,
              _id |-> screenshot._id],
             "ok")

\* Lines 119-220: the checks made of the request before extraction; the
\* envelope of the first that fails.
RequestRejection(req) ==
    IF ~req.formData THEN Failure(400, TextInvalidForm, "form")
    ELSE IF ~req.hasFile THEN Failure(400, TextNoImage, "file")
    ELSE IF req.size > MAX_FILE_SIZE
    THEN Failure(400, TextFileTooLarge \o MegaBytes(req.size), "size")
    ELSE IF toLowerCase(req.type) \notin ALLOWED_FORMATS
    THEN Failure(400, TextUnsupportedType \o req.type \o TextSupportedTypes, "type")
    ELSE IF ~validateImageFormat(req.type)
    THEN Failure(400, TextInvalidType \o req.type, "type")
    ELSE IF ~req.readable THEN Failure(500, TextReadFailed, "read")
    ELSE NoData

NoRequest ==
    [ip |-> "none", formData |-> FALSE, hasFile |-> FALSE, size |-> 0,
     type |-> EmptyString, readable |-> FALSE, apiKey |-> FALSE]

\* Lines 96-117: the rate-limit check of the client's address.
PostRateLimit ==
    /\ rpc = "rateLimit"
    /\ CheckRateLimitCall(request.ip)
    /\ LET res == CheckResult(rateLimitStore, request.ip, now)
       IN  IF Rejected(res)
           THEN /\ envelopes' = Append(envelopes, RateLimitEnvelope(res))
                /\ rpc' = "done"
           ELSE /\ envelopes' = envelopes
                /\ rpc' = "validate"
    /\ UNCHANGED <<request, exVars, pxVars, dbVars, cnVars>>

\* Lines 119-239: the request is checked and extractTextFromImage is called.
PostValidate ==
    /\ rpc = "validate"
    /\ IF RequestRejection(request) # NoData
       THEN /\ envelopes' = Append(envelopes, RequestRejection(request))
            /\ rpc' = "done"
            /\ UNCHANGED <<pc, input>>
       ELSE /\ envelopes' = envelopes
            /\ rpc' = "extract"
            /\ pc' = "validate"
            /\ input' = MakeInput(request.type, request.size, <<800, 600>>,
                                  RouteOptions, request.apiKey)
    /\ UNCHANGED <<cpc, image, processed, attempt, requests, waits, events, outcome>>
    /\ UNCHANGED <<request, rlVars, pxVars, dbVars, cnVars>>

\* Lines 245-279: extractTextFromImage threw.
PostExtractionFailed ==
    /\ rpc = "extract"
    /\ pc = "threw"
    /\ envelopes' = Append(envelopes,
                           ExtractionFailedEnvelope(outcome.message, input.mimeType))
    /\ rpc' = "done"
    /\ UNCHANGED <<request, rlVars, exVars, pxVars, dbVars, cnVars>>

\* Lines 281-338: extractTextFromImage returned; the record is created and
\* the result returned with the record's identifier.
PostSave ==
    /\ rpc = "extract"
    /\ pc = "returned"
    /\ \E env \in DbEnvs, id \in IdPool \ Ids(collection) :
          LET r == saveScreenshot(collection, cachedClient, result, id, now, env)
          IN  /\ collection' = r.collection
              /\ cachedClient' = r.cached
              /\ dbResult' = DbResult("create", "endpoint", id, env, r)
              /\ envelopes' = Append(envelopes,
                                     IF r.threw THEN SaveFailedEnvelope(r)
                                     ELSE SuccessEnvelope(result, r.value))
    /\ rpc' = "done"
    /\ UNCHANGED <<request, rlVars, exVars, pxVars, cnVars>>

\* DELETE /api/history with this id in the query or the body (part_003,
\* lines 77-145).
DeleteEndpoint(id) ==
    /\ rpc = "idle"
    /\ IF id = << >>
       THEN /\ envelopes' = <<Failure(400, TextNoId, "id")>>
            /\ dbResult' = NoDbResult
            /\ UNCHANGED <<collection, cachedClient>>
       ELSE IF ~ObjectIdValid(id)
       THEN /\ envelopes' = <<Failure(400, TextInvalidId, "id")>>
            /\ dbResult' = NoDbResult
            /\ UNCHANGED <<collection, cachedClient>>
       ELSE \E env \in DbEnvs :
            LET r == deleteScreenshot(collection, cachedClient, id, env)
            IN  /\ collection' = r.collection
                /\ cachedClient' = r.cached
                /\ dbResult' = DbResult("delete", "endpoint", id, env, r)
                /\ envelopes' =
                      <<IF r.threw
                        THEN Failure(500, TextConnectFailed \o TextOperationFailed,
                                     "storage")
                        ELSE IF ~r.value THEN Failure(404, TextNotFound, "notFound")
                        ELSE Envelope(TRUE, 200, << >>, [message |-> TextDeleted],
                                      "ok")>>
    /\ UNCHANGED <<rpc, request, rlVars, exVars, pxVars, cnVars>>

(***************************************************************************)
(* Specifications                                                          *)
(***************************************************************************)
IdleRateLimit ==
    /\ now = 0
    /\ ticks = 0
    /\ rateLimitStore = << >>
    /\ unsweptStore = << >>
    /\ lastCheck = NoCheck
    /\ windows = [ip \in Ips |-> {}]

IdleParse ==
    /\ parts = << >>
    /\ fullText = << >>
    /\ result = NoResult
    /\ reparsed = NoResult
    /\ applied = NoApplied

IdleRoute ==
    /\ rpc = "idle"
    /\ request = NoRequest
    /\ envelopes = << >>

IdleStore ==
    /\ collection = {}
    /\ cachedClient = FALSE
    /\ dbResult = NoDbResult

IdleConnect ==
    /\ clientCache = 0
    /\ clientsCreated = 0
    /\ connectedClients = {}
    /\ connectCalls = [c \in Callers |-> IdleCall]
    /\ callsStarted = 0

IdleExtraction ==
    /\ pc = "idle"
    /\ input = NoInput
    /\ cpc = "entry"
    /\ image = NoImage
    /\ processed = NoProcessed
    /\ attempt = 0
    /\ requests = << >>
    /\ waits = << >>
    /\ events = << >>
    /\ outcome = NoOutcome

\* One extractTextFromImage call.
ExtractInputs ==
    {MakeInput(m, len, dims, RouteOptions, key) :
        m \in MimeSamples,
        len \in {100 * 1024, 20 * 1024 * 1024 + 1},
        dims \in {<<800, 600>>, <<4000, 3000>>},
        key \in BOOLEAN}

Init ==
    /\ IdleRateLimit
    /\ IdleParse
    /\ IdleRoute
    /\ IdleStore
    /\ IdleConnect
    /\ pc = "validate"
    /\ input \in ExtractInputs
    /\ cpc = "entry"
    /\ image = NoImage
    /\ processed = NoProcessed
    /\ attempt = 0
    /\ requests = << >>
    /\ waits = << >>
    /\ events = << >>
    /\ outcome = NoOutcome

Next ==
    \/ Validate
    \/ CompressStep
    \/ TakeProcessed
    \/ UpstreamSucceeds
    \/ \E error \in UpstreamErrors : UpstreamFails(error)
    \/ ClientInitFails
    \/ TimerFires

Spec == Init /\ [][Next]_vars

\* The same call when every awaited promise settles: the sharp calls, the
\* upstream request of each attempt and the timer of each wait.
LiveInputs == {i \in ExtractInputs : i.mimeType \in {ImagePng, ImageGif}}

InitLive ==
    /\ IdleRateLimit
    /\ IdleParse
    /\ IdleRoute
    /\ IdleStore
    /\ IdleConnect
    /\ pc = "validate"
    /\ input \in LiveInputs
    /\ cpc = "entry"
    /\ image = NoImage
    /\ processed = NoProcessed
    /\ attempt = 0
    /\ requests = << >>
    /\ waits = << >>
    /\ events = << >>
    /\ outcome = NoOutcome

SpecLive == InitLive /\ [][Next]_vars /\ WF_vars(Next)

\* The rate limiter.
InitRateLimiter == IdleRateLimit /\ IdleExtraction /\ IdleParse /\ IdleRoute /\ IdleStore /\ IdleConnect

NextRateLimit ==
    \/ \E ip \in Ips : CheckRateLimit(ip)
    \/ Sweep
    \/ Tick

SpecRateLimit == InitRateLimiter /\ [][NextRateLimit]_vars

\* compressImageIfNeeded called on its own, with a declared type that passed
\* validation (its one caller validates first).
CompressInputs ==
    {MakeInput(m, len, dims, [maxSize |-> ms, maxDimension |-> md, quality |-> q], TRUE) :
        m \in {t \in MimeSamples : validateImageFormat(t)},
        len \in {100 * 1024, 500 * 1024 + 1, 10 * 1024 * 1024 + 1, 20 * 1024 * 1024 + 1},
        dims \in {<<800, 600>>, <<2048, 2048>>, <<4000, 3000>>, <<1000, 4096>>},
        ms \in {0, 100 * 1024},
        md \in {0, 1024},
        q \in {0, 50, 60}}

InitCompress ==
    /\ IdleRateLimit
    /\ IdleParse
    /\ IdleRoute
    /\ IdleStore
    /\ IdleConnect
    /\ pc = "compress"
    /\ input \in CompressInputs
    /\ cpc = "entry"
    /\ image = NoImage
    /\ processed = NoProcessed
    /\ attempt = 0
    /\ requests = << >>
    /\ waits = << >>
    /\ events = << >>
    /\ outcome = NoOutcome

NextCompress == CompressStep

SpecCompress == InitCompress /\ [][NextCompress]_vars

\* parseExtractionResponse applied to responses of up to MaxParts pieces and
\* again to the text it returned, and detectLanguageFromText applied to them.
InitParse ==
    /\ IdleRateLimit
    /\ IdleExtraction
    /\ IdleRoute
    /\ IdleStore
    /\ IdleConnect
    /\ parts \in SeqsUpTo(ResponseParts, MaxParts)
    /\ fullText = Join(parts)
    /\ result = NoResult
    /\ reparsed = NoResult
    /\ applied = NoApplied

NextParse ==
    \/ Parse
    \/ Reparse
    \/ DetectLanguage

SpecParse == InitParse /\ [][NextParse]_vars

\* estimateConfidence applied to texts of up to MaxParts lines.
InitHeuristics ==
    /\ IdleRateLimit
    /\ IdleExtraction
    /\ IdleRoute
    /\ IdleStore
    /\ IdleConnect
    /\ parts \in SeqsUpTo(HeuristicParts, MaxParts)
    /\ fullText = Join(parts)
    /\ result = NoResult
    /\ reparsed = NoResult
    /\ applied = NoApplied

NextHeuristics == EstimateConfidence

SpecHeuristics == InitHeuristics /\ [][NextHeuristics]_vars

\* One POST /api/ocr request, from a client that made no request in this
\* window or one that has used the window's budget up. (The handler passes
\* its size limit as maxSize, so compressImageIfNeeded never gets as far as
\* re-encoding.)
RouteIp == "10.0.0.1"

RouteRequests ==
    [ip : {RouteIp}, formData : BOOLEAN, hasFile : BOOLEAN,
     size : {100 * 1024, MAX_FILE_SIZE + 1},
     type : {ImagePng, ImagePngUpper, ImageGif, ImageHeic},
     readable : BOOLEAN, apiKey : BOOLEAN]

RECURSIVE StoreAfterCalls(_, _)
StoreAfterCalls(ip, n) ==
    IF n = 0 THEN << >>
    ELSE LET store == StoreAfterCalls(ip, n - 1) IN StoreAfterCheck(store, ip, 0)

\* The limiter before the request: no call yet, or ten calls at time 0.
LimiterStates ==
    {[n |-> n, store |-> StoreAfterCalls(RouteIp, n)] :
        n \in {0, RATE_LIMIT_MAX_REQUESTS}}

InitRoute ==
    /\ now = 0
    /\ ticks = 0
    /\ lastCheck = NoCheck
    /\ request \in RouteRequests
    /\ \E l \in LimiterStates :
          /\ rateLimitStore = l.store
          /\ unsweptStore = l.store
          /\ windows = [ip \in Ips |->
                          IF ip = RouteIp /\ l.n > 0
                          THEN {[open |-> 0, reset |-> RATE_LIMIT_WINDOW_MS,
                                 calls |-> l.n, admitted |-> l.n]}
                          ELSE {}]
    /\ rpc = "rateLimit"
    /\ envelopes = << >>
    /\ IdleExtraction
    /\ IdleParse
    /\ IdleStore
    /\ IdleConnect

NextRoute ==
    \/ PostRateLimit
    \/ PostValidate
    \/ Validate
    \/ CompressEntry
    \/ CompressSmallMetadata
    \/ TakeProcessed
    \/ UpstreamSucceeds
    \/ \E error \in UpstreamErrors : UpstreamFails(error)
    \/ ClientInitFails
    \/ TimerFires
    \/ PostExtractionFailed
    \/ PostSave

SpecRoute == InitRoute /\ [][NextRoute]_vars

\* POST /api/ocr requests of one client, one after the other in one window:
\* each request is a new call of the handler (part_004, line 82), whose
\* locals start afresh, while the limiter's store and the collection live on.
ValidRequest ==
    [ip |-> RouteIp, formData |-> TRUE, hasFile |-> TRUE, size |-> 100 * 1024,
     type |-> ImagePng, readable |-> TRUE, apiKey |-> TRUE]

BudgetRequests ==
    {ValidRequest,
     [ValidRequest EXCEPT !.formData = FALSE],
     [ValidRequest EXCEPT !.hasFile = FALSE],
     [ValidRequest EXCEPT !.size = MAX_FILE_SIZE + 1],
     [ValidRequest EXCEPT !.type = ImageGif],
     [ValidRequest EXCEPT !.readable = FALSE],
     [ValidRequest EXCEPT !.apiKey = FALSE]}

NextRequest ==
    /\ rpc = "done"
    /\ request' \in BudgetRequests
    /\ rpc' = "rateLimit"
    /\ envelopes' = << >>
    /\ pc' = "idle"
    /\ input' = NoInput
    /\ cpc' = "entry"
    /\ image' = NoImage
    /\ processed' = NoProcessed
    /\ attempt' = 0
    /\ requests' = << >>
    /\ waits' = << >>
    /\ events' = << >>
    /\ outcome' = NoOutcome
    /\ parts' = << >>
    /\ fullText' = << >>
    /\ result' = NoResult
    /\ dbResult' = NoDbResult
    /\ UNCHANGED <<reparsed, applied, collection, cachedClient>>
    /\ UNCHANGED <<rlVars, cnVars>>

InitBudget ==
    /\ IdleRateLimit
    /\ request \in BudgetRequests
    /\ rpc = "rateLimit"
    /\ envelopes = << >>
    /\ IdleExtraction
    /\ IdleParse
    /\ IdleStore
    /\ IdleConnect

NextBudget ==
    \/ PostRateLimit
    \/ PostValidate
    \/ Validate
    \/ CompressEntry
    \/ CompressSmallMetadata
    \/ TakeProcessed
    \/ UpstreamSucceeds
    \/ \E error \in {e \in UpstreamErrors : IsTerminal(e)} : UpstreamFails(error)
    \/ ClientInitFails
    \/ PostExtractionFailed
    \/ PostSave
    \/ NextRequest

SpecBudget == InitBudget /\ [][NextBudget]_vars

\* Adapter calls and DELETE requests, in any order.
InitStore ==
    /\ IdleRateLimit
    /\ IdleExtraction
    /\ IdleParse
    /\ IdleRoute
    /\ IdleStore
    /\ IdleConnect

NextStore ==
    \/ \E data \in RecordSamples : Create(data)
    \/ \E limit \in {1, 50} : FindAll(limit)
    \/ \E id \in IdSamples : FindById(id)
    \/ \E id \in IdSamples : DeleteById(id)
    \/ \E id \in IdSamples : DeleteEndpoint(id)

SpecStore == InitStore /\ [][NextStore]_vars

\* connectToDatabase called again and again, one call at a time.
InitConnect ==
    /\ IdleRateLimit
    /\ IdleExtraction
    /\ IdleParse
    /\ IdleRoute
    /\ IdleStore
    /\ IdleConnect

ConnectAlone(c) ==
    /\ \A d \in Callers : ~InProgress(d)
    /\ ConnectBegin(c)

NextConnect ==
    \/ \E c \in Callers : ConnectAlone(c)
    \/ \E c \in Callers : ConnectStep(c)

SpecConnect == InitConnect /\ [][NextConnect]_vars

\* Each caller calls connectToDatabase once, the calls interleaving at their
\* awaits; at the start no client is cached, or one whose ping may fail.
InitConnectRace ==
    /\ IdleRateLimit
    /\ IdleExtraction
    /\ IdleParse
    /\ IdleRoute
    /\ IdleStore
    /\ clientCache \in {0, 1}
    /\ clientsCreated = clientCache
    /\ connectedClients = IF clientCache = 0 THEN {} ELSE {clientCache}
    /\ connectCalls = [c \in Callers |-> IdleCall]
    /\ callsStarted = 0

ConnectOnce(c) ==
    /\ connectCalls[c].pc = "idle"
    /\ ConnectBegin(c)

NextConnectRace ==
    \/ \E c \in Callers : ConnectOnce(c)
    \/ \E c \in Callers : ConnectStep(c)

SpecConnectRace == InitConnectRace /\ [][NextConnectRace]_vars

(***************************************************************************)
(* Properties of the rate limiter (SpecRateLimit)                          *)
(***************************************************************************)

\* C1 (as stated): within one window of an identity the calls 1..10 are
\* admitted with remaining 9, 8, ..., 0; every later call in the window (the
\* 11th) is rejected with remaining 0 and a resetTime LATER than the time of
\* the call; the first call after the window is admitted with remaining 9
\* and a new resetTime.
C1_WindowSequenceStrict ==
    lastCheck.ip # "none" =>
        /\ lastCheck.nth <= 10 =>
              lastCheck.allowed /\ lastCheck.remaining = 10 - lastCheck.nth
        /\ lastCheck.nth > 10 =>
              /\ ~lastCheck.allowed
              /\ lastCheck.remaining = 0
              /\ lastCheck.resetTime > lastCheck.at
        /\ lastCheck.fresh =>
              /\ lastCheck.allowed
              /\ lastCheck.remaining = 9
              /\ lastCheck.resetTime = lastCheck.at + 60000
              /\ lastCheck.resetTime > lastCheck.prevReset

\* C1 (amended): the same, with the rejected call's resetTime NOT EARLIER
\* than the time of the call: a call made exactly at resetTime is still
\* inside the window, and the window has elapsed only once the clock is past
\* resetTime.
C1_WindowSequence ==
    lastCheck.ip # "none" =>
        /\ lastCheck.nth <= 10 =>
              lastCheck.allowed /\ lastCheck.remaining = 10 - lastCheck.nth
        /\ lastCheck.nth > 10 =>
              /\ ~lastCheck.allowed
              /\ lastCheck.remaining = 0
              /\ lastCheck.resetTime >= lastCheck.at
        /\ lastCheck.fresh =>
              /\ lastCheck.allowed
              /\ lastCheck.remaining = 9
              /\ lastCheck.resetTime = lastCheck.at + 60000
              /\ lastCheck.resetTime > lastCheck.prevReset
              /\ lastCheck.at > lastCheck.prevReset

\* C1 witness: a window took 11 calls, it elapsed, and the next call of the
\* identity opened a new one.
C1_Witness ==
    /\ lastCheck.ip # "none"
    /\ lastCheck.fresh
    /\ lastCheck.prevCalls >= 11
    /\ lastCheck.allowed
    /\ lastCheck.remaining = 9

\* C2: no window of any identity holds more than 10 admitted calls.
C2_AtMostTenPerWindow ==
    \A ip \in Ips : \A w \in windows[ip] : w.admitted <= 10

\* C2 witness: a window with 10 admitted calls took a further call, after a
\* sweep-visible expiry of another identity's window or not.
C2_Witness ==
    \E ip \in Ips : \E w \in windows[ip] : w.admitted = 10 /\ w.calls = 11

(***************************************************************************)
(* Properties of extractTextFromImage (Spec)                               *)
(***************************************************************************)
IssuedBefore(i) == Cardinality({j \in 1..i : events[j].issued})

Failed(e) == e.class # "none"

HasStatus(e, statuses) == e.class = "APIError" /\ e.status \in statuses

\* C3: a call issues at most 3 upstream requests, every attempt that makes
\* a request is counted, and a successful attempt is the last attempt.
C3_AtMostThreeRequests ==
    /\ Len(requests) <= 3
    /\ Len(events) <= 3
    /\ Len(requests) = IssuedBefore(Len(events))
    /\ \A i \in 1..Len(events) :
          events[i].ok => (i = Len(events) /\ pc = "returned")

\* C3 witness: the third request succeeded after two failed ones.
C3_Witness ==
    /\ Len(requests) = 3
    /\ Len(events) = 3
    /\ events[3].ok
    /\ pc = "returned"

\* C4: an attempt that fails with status 401, 402 or 404 is the last one:
\* the call has thrown that status's message, no timer was awaited after it
\* and no request follows it; when the first attempt fails so, exactly one
\* request was made.
C4_TerminalFailsAtOnce ==
    \A i \in 1..Len(events) :
        HasStatus(events[i].error, {401, 402, 404}) =>
            /\ i = Len(events)
            /\ pc = "threw"
            /\ outcome.status = "threw"
            /\ outcome.message.kind =
                  (CASE events[i].error.status = 401 -> "InvalidApiKey"
                     [] events[i].error.status = 402 -> "InsufficientQuota"
                     [] events[i].error.status = 404 -> "ModelNotFound")
            /\ ~events[i].wait.set
            /\ Len(waits) = i - 1
            /\ Len(requests) = i

\* C4 witness: the first attempt met an authentication error.
C4_Witness ==
    /\ Len(events) = 1
    /\ HasStatus(events[1].error, {401})
    /\ Len(requests) = 1
    /\ waits = << >>
    /\ pc = "threw"

Transient(e) == Failed(e) /\ ~HasStatus(e, {401, 402, 404, 429})

\* C5: after failed attempt k (k = 0, 1) with a transient error a timer of
\* 2^k seconds is awaited; two transient failures followed by a success
\* return the result after exactly 3 requests and 2 waits.
C5_TransientBackoff ==
    /\ \A i \in 1..Len(events) :
          (i <= 2 /\ Transient(events[i].error)) =>
              /\ events[i].wait = Wait(Num((IF i = 1 THEN 1 ELSE 2) * 1000))
              /\ Len(waits) >= i
              /\ waits[i] = events[i].wait.ms
    /\ ( /\ Len(events) = 3
         /\ Transient(events[1].error)
         /\ Transient(events[2].error)
         /\ events[3].ok )
       => /\ pc = "returned"
          /\ outcome.status = "returned"
          /\ Len(requests) = 3
          /\ waits = <<Num(1000), Num(2000)>>

\* C5 witness: two transient failures, then a success.
C5_Witness ==
    /\ Len(events) = 3
    /\ Transient(events[1].error)
    /\ Transient(events[2].error)
    /\ events[3].ok
    /\ pc = "returned"

\* The duration a retry-after value states, in milliseconds, when it is a
\* number of seconds; -1 for any other form (an HTTP date states a
\* duration that depends on the clock).
RetryAfterMillis(v) ==
    IF v # << >> /\ DigitPrefixLen(v) = Len(v)
    THEN DecimalValue(v, Len(v)) * 1000
    ELSE -1

\* C6: a 429 on attempt k < 2 is followed by a wait of the retry hint's
\* duration when the error carries a hint, of 2^k seconds otherwise, and
\* then by a retry; a 429 on the last attempt is followed by no wait and no
\* retry, and the call fails with the rate-limit message.
C6_RateLimitWaitsForHint ==
    \A i \in 1..Len(events) :
        HasStatus(events[i].error, {429}) =>
            LET k == events[i].try
                h == events[i].error.retryAfter
            IN  /\ k < 2 =>
                    /\ events[i].wait.set
                    /\ ~events[i].wait.ms.nan
                    /\ h.present /\ RetryAfterMillis(h.value) >= 0 =>
                          events[i].wait.ms.value = RetryAfterMillis(h.value)
                    /\ ~h.present => events[i].wait.ms.value = Pow2(k) * 1000
                    /\ pc # "threw" \/ Len(events) > i
                /\ k = 2 =>
                    /\ ~events[i].wait.set
                    /\ i = Len(events)
                    /\ pc = "threw"
                    /\ outcome.message.kind = "RateLimitExceeded"

\* C7 (as stated): when all 3 attempts failed with non-terminal errors the
\* call throws the message of the last error: the server-error message for
\* a status >= 500, the error's raw message for any other error.
C7_LastErrorRawUnlessServer ==
    ( /\ Len(events) = 3
      /\ \A i \in 1..3 : Failed(events[i].error)
                         /\ ~HasStatus(events[i].error, {401, 402, 404}) )
    => /\ pc = "threw"
       /\ outcome.status = "threw"
       /\ outcome.message =
             (IF events[3].error.status >= 500
              THEN [Message("ServerError") EXCEPT !.retries = 2]
              ELSE [Message("Raw") EXCEPT !.raw = events[3].error.message])

\* C7 (amended): the same, with the rate-limit message (naming the retry
\* hint when there is one) for a last error of status 429.
C7_LastErrorClassified ==
    ( /\ Len(events) = 3
      /\ \A i \in 1..3 : Failed(events[i].error)
                         /\ ~HasStatus(events[i].error, {401, 402, 404}) )
    => /\ pc = "threw"
       /\ outcome.status = "threw"
       /\ outcome.message =
             (IF HasStatus(events[3].error, {429})
              THEN [Message("RateLimitExceeded") EXCEPT
                       !.retryAfter = events[3].error.retryAfter.value]
              ELSE IF events[3].error.status >= 500
              THEN [Message("ServerError") EXCEPT !.retries = 2]
              ELSE [Message("Raw") EXCEPT !.raw = events[3].error.message])

\* C7 witness: three failed attempts, a server error first and a rate-limit
\* error last.
C7_Witness ==
    /\ Len(events) = 3
    /\ events[1].error.status = 500
    /\ Transient(events[2].error)
    /\ HasStatus(events[3].error, {429})
    /\ pc = "threw"
    /\ outcome.message.kind = "RateLimitExceeded"

\* A supported image type: an image/* type whose subtype names PNG, JPEG,
\* WebP, HEIC or HEIF (image/x-png is a close variant of image/png).
SupportedImageType(mimeType) ==
    /\ startsWith(toLowerCase(mimeType), <<"i", "m", "a", "g", "e", "/">>)
    /\ \E type \in SUPPORTED_MIME_TYPES :
          includes(splitSlash1(toLowerCase(mimeType)), splitSlash1(type))

\* C8: once validation is over, a call whose declared type is not a
\* supported image type has thrown the unsupported-format error with no
\* normalization step taken and no request made, and a call whose type is
\* supported has not thrown that error.
C8_UnsupportedFailsFast ==
    pc # "validate" =>
        /\ ~SupportedImageType(input.mimeType) =>
              /\ pc = "threw"
              /\ outcome.message.kind = "UnsupportedFormat"
              /\ cpc = "entry"
              /\ requests = << >>
        /\ SupportedImageType(input.mimeType) =>
              outcome.message.kind # "UnsupportedFormat"

\* C9: after a failure at any normalization step the function has returned
\* the original buffer with its original MIME type, the call did not fail
\* there, and every request made carries that buffer and that type; with an
\* API key the call does not end before a request was made.
C9_NormalizationFailureHarmless ==
    image.failedAt # "none" =>
        /\ cpc = "done"
        /\ processed.buffer = OriginalBuffer(input)
        /\ processed.mimeType = input.mimeType
        /\ \A i \in 1..Len(requests) :
              requests[i] = [mimeType |-> input.mimeType,
                             buffer |-> OriginalBuffer(input)]
        /\ pc = "threw" => Len(events) >= 1
        /\ (pc \in {"threw", "returned"} /\ input.apiKey) => Len(requests) >= 1

\* C9 witness: the final metadata read failed after a conversion to JPEG
\* and the request went out with the original bytes.
C9_Witness ==
    /\ image.failedAt = "finalMetadata"
    /\ image.outputMimeType # input.mimeType
    /\ Len(requests) >= 1
    /\ requests[1].buffer.orig
    /\ requests[1].mimeType = input.mimeType

(***************************************************************************)
(* Properties of compressImageIfNeeded (SpecCompress)                      *)
(***************************************************************************)

\* C10: the returned buffer is at most maxSize long, or it is the original
\* buffer returned with its original MIME type.
C10_WithinMaxSizeOrOriginal ==
    cpc = "done" =>
        \/ processed.buffer.len <= MaxSizeOf(input.opts)
        \/ /\ processed.buffer = OriginalBuffer(input)
           /\ processed.mimeType = input.mimeType

(***************************************************************************)
(* Properties of the response parser (Spec, SpecParse, SpecHeuristics)     *)
(***************************************************************************)
InScale(d) == 0 <= d.num /\ d.num <= 100 * d.den

\* C11: every result extractTextFromImage returns has a confidence within
\* [0, 100], whether it was read from a CONFIDENCE: marker or estimated.
C11_ConfidenceInScale ==
    pc = "returned" => InScale(result.confidence)

\* The score as the claim words it: 80, +5 for each length threshold passed,
\* +5 for letters with white space, +2 for digits, +3 for punctuation, -10
\* for a short text that holds an implausible character.
ClaimedScore(text) ==
    80 + 5 * Cardinality({n \in {10, 50, 100} : Len(text) > n})
       + (IF (\E i \in 1..Len(text) : InClass(text[i], LetterCodes))
             /\ (\E i \in 1..Len(text) : InClass(text[i], WhiteSpaceCodes))
          THEN 5 ELSE 0)
       + (IF \E i \in 1..Len(text) : text[i] \in Digits THEN 2 ELSE 0)
       + (IF \E i \in 1..Len(text) : text[i] \in {".", ",", "!", "?", ";", ":"}
          THEN 3 ELSE 0)
       - (IF Len(text) < 20 /\ garbledPattern(text) THEN 10 ELSE 0)

Estimated == applied.estimate # -1

Parsed == result # NoResult
Reparsed == reparsed # NoResult

IsPlain(p) == p.kind = "text"
IsLanguage(p) == p.kind = "language"
IsInk(c) == ~InClass(c, WhiteSpaceCodes)

\* The response's text without its marker pieces, and a text without its
\* white space.
PlainText(ps) == Join(SelectSeq(ps, IsPlain))
Squeeze(s) == SelectSeq(s, IsInk)

HasLabel(s) ==
    \E i \in 1..Len(s) : LabelAt(s, i, LanguageLabel) \/ LabelAt(s, i, ConfidenceLabel)

\* C13: whatever markers the response holds (any position, letter case,
\* number of occurrences, value token), the text parseExtractionResponse
\* returns holds no marker label and no piece of a marker's value: white space
\* aside, it is the response's plain text.
C13_MarkersNeverLeak ==
    Parsed =>
        /\ ~HasLabel(result.extractedText)
        /\ Squeeze(result.extractedText) = Squeeze(PlainText(parts))

\* The response is a text followed by one language and one confidence
\* marker line.
TextThenBothMarkers ==
    /\ Len(parts) >= 2
    /\ {parts[Len(parts) - 1].kind, parts[Len(parts)].kind} = {"language", "confidence"}
    /\ \A i \in 1..(Len(parts) - 2) : IsPlain(parts[i])

HasScript(s) ==
    TestClass(s, CjkCodes \cup KanaCodes \cup HangulCodes \cup ArabicCodes
                     \cup CyrillicCodes \cup ThaiCodes \cup HebrewCodes)

\* C14: for a text followed by both marker lines the returned text is that
\* text; and parsing a returned text again returns it unchanged (with
\* language en and the estimated confidence when it holds no marker and no
\* non-Latin script).
C14_RoundTripIdempotent ==
    /\ Parsed /\ TextThenBothMarkers => result.extractedText = PlainText(parts)
    /\ Reparsed =>
        /\ reparsed.extractedText = result.extractedText
        /\ ~HasLabel(result.extractedText) /\ ~HasScript(result.extractedText) =>
              /\ reparsed.language = LangEn
              /\ reparsed.confidence
                    = Decimal(estimateConfidence(result.extractedText), 1)

\* The scripts in the order the claim gives them.
ScriptOrder ==
    <<[codes |-> CjkCodes, language |-> LangZh],
      [codes |-> KanaCodes, language |-> LangJa],
      [codes |-> HangulCodes, language |-> LangKo],
      [codes |-> ArabicCodes, language |-> LangAr],
      [codes |-> CyrillicCodes, language |-> LangRu],
      [codes |-> ThaiCodes, language |-> LangTh],
      [codes |-> HebrewCodes, language |-> LangHe]>>

FirstScript(text) ==
    LET present == {k \in 1..Len(ScriptOrder) :
                        \E i \in 1..Len(text) : InClass(text[i], ScriptOrder[k].codes)}
    IN  IF present = {} THEN LangEn ELSE ScriptOrder[MinOf(present)].language

LanguageParts == SelectSeq(parts, IsLanguage)
IsCode(v) == Len(v) \in {2, 3} /\ \A i \in 1..Len(v) : InClass(v[i], LetterCodes)

\* C15: for a text without a language marker the detector, called directly
\* or by the parser, returns the code of the first script present in the
\* order zh, ja, ko, ar, ru, th, he, and en when none is; when the response's
\* first language marker carries a two- or three-letter code, the parser
\* returns that code in lower case.
C15_LanguagePrecedence ==
    /\ applied.language # << >> /\ LanguageParts = << >> =>
          applied.language = FirstScript(fullText)
    /\ Parsed /\ LanguageParts = << >> => result.language = FirstScript(fullText)
    /\ Parsed /\ LanguageParts # << >> /\ IsCode(LanguageParts[1].value) =>
          result.language = toLowerCase(LanguageParts[1].value)

\* A text with CJK and Cyrillic characters and no marker has been through the
\* detector and the parser.
C15_Witness ==
    /\ Parsed
    /\ applied.language = LangZh
    /\ LanguageParts = << >>
    /\ TestClass(fullText, CjkCodes)
    /\ TestClass(fullText, CyrillicCodes)

\* A response whose upper-case marker code wins over the script of its text.
C15_WitnessMarker ==
    /\ Parsed
    /\ HasScript(fullText)
    /\ LanguageParts # << >>
    /\ LanguageParts[1].value = ValueDeUpper
    /\ result.language = <<"d", "e">>

(***************************************************************************)
(* Properties of the endpoints and the adapter (SpecRoute, SpecStore)      *)
(***************************************************************************)
Responded == envelopes # << >>
LastEnvelope == envelopes[Len(envelopes)]
LastError == events[Len(events)].error

\* C16: the steps of one POST request happen in the order rate-limit check,
\* extraction, persistence, response: extraction starts only after the
\* limiter admitted the request, a rejected request makes no upstream
\* request and creates no record, a record is created only after extraction
\* returned, and a success envelope carries the identifier and text of a
\* record that was created.
C16_StepsInOrder ==
    /\ pc # "idle" \/ requests # << >> =>
          lastCheck.ip = request.ip /\ lastCheck.allowed
    /\ Responded /\ LastEnvelope.cause = "rateLimit" =>
          pc = "idle" /\ requests = << >> /\ collection = {}
    /\ collection # {} => pc = "returned"
    /\ \A i \in 1..Len(envelopes) :
          envelopes[i].success =>
              \E r \in collection :
                  /\ r._id = envelopes[i].data._id
                  /\ r.extractedText = envelopes[i].data.extractedText

\* A request went through all four steps.
C16_Witness ==
    /\ rpc = "done"
    /\ Responded
    /\ LastEnvelope.success
    /\ requests # << >>
    /\ collection # {}

SaveFailed == rpc = "done" /\ pc = "returned" /\ dbResult.op = "create" /\ dbResult.threw

\* C17: a request is answered by exactly one envelope, a success with data
\* or a failure with a message and no data; when extraction succeeded and
\* the record could not be saved the envelope is a failure with status 500,
\* whose message no extraction failure produces.
C17_OneEnvelope ==
    /\ Len(envelopes) <= 1
    /\ rpc = "done" <=> Len(envelopes) = 1
    /\ \A i \in 1..Len(envelopes) :
          LET e == envelopes[i]
          IN  /\ e.success => e.status = 200 /\ e.data # NoData /\ e.error = << >>
              /\ ~e.success => e.status >= 400 /\ e.data = NoData /\ e.error # << >>
              /\ SaveFailed => ~e.success /\ e.status = 500 /\ e.error = TextSaveFailed
              /\ pc = "threw" => e.error # TextSaveFailed

\* Extraction succeeded and the save failed.
C17_Witness ==
    /\ SaveFailed
    /\ Responded
    /\ result # NoResult

\* The upstream rejected the credentials, or there are none to send.
AuthFailure ==
    /\ events # << >>
    /\ \/ LastError.class = "APIError" /\ LastError.status = 401
       \/ LastError = MissingApiKey

LastErrorHasStatus(st) ==
    events # << >> /\ LastError.class = "APIError" /\ LastError.status = st

\* C19: the POST endpoint gives each failure class its status: 400 for a
\* malformed, oversized or unsupported input, 401 for an upstream
\* authentication failure and for nothing else, 402 for exhausted quota, 429
\* for its own or the upstream's rate limit, 500 for an internal or storage
\* failure, 504 for an upstream timeout.
C19_StatusByFailureClass ==
    \A i \in 1..Len(envelopes) :
        LET e == envelopes[i]
        IN  ~e.success =>
              /\ e.cause \in {"form", "file", "size", "type"} => e.status = 400
              /\ e.cause = "rateLimit" => e.status = 429
              /\ e.cause \in {"read", "save"} => e.status = 500
              /\ e.cause = "extraction" =>
                    /\ events = << >> => e.status = 400
                    /\ AuthFailure <=> e.status = 401
                    /\ LastErrorHasStatus(402) => e.status = 402
                    /\ LastErrorHasStatus(429) => e.status = 429
                    /\ LastErrorHasStatus(500) => e.status = 500
                    /\ events # << >> /\ LastError.message = MsgTimedOut =>
                          e.status = 504

Deleted == dbResult.op = "delete"
NoSuchRecord == ~ObjectIdValid(dbResult.id) \/ ~dbResult.present

\* C18: while the database works, deleteById of a well-formed identifier that
\* matches no record, and of a malformed identifier, returns false without
\* raising and leaves the records as they were; the endpoint answers the
\* well-formed identifier with 404.
C18_DeleteNotFound ==
    Deleted /\ ~dbResult.failed /\ NoSuchRecord =>
        /\ ~dbResult.threw
        /\ dbResult.value = FALSE
        /\ ~dbResult.changed
        /\ dbResult.via = "endpoint" => LastEnvelope.status = 404

\* A malformed identifier was passed to deleteById while records were stored.
C18_Witness ==
    /\ Deleted
    /\ dbResult.via = "model"
    /\ ~dbResult.failed
    /\ ~ObjectIdValid(dbResult.id)
    /\ dbResult.value = FALSE
    /\ collection # {}

\* C20: a storage failure during create, list, lookup or delete reaches the
\* caller as a failure, never as a normal outcome (and the endpoint answers
\* it with 500).
C20_StorageFailuresSurface ==
    dbResult.op # "none" /\ dbResult.failed =>
        /\ dbResult.threw
        /\ dbResult.via = "endpoint" => LastEnvelope.status = 500

(***************************************************************************)
(* Further properties of the rate limiter (SpecRateLimit)                  *)
(***************************************************************************)
\* The window of ip that the stored entry stands for.
StoredWindow(ip) ==
    CHOOSE w \in windows[ip] : w.reset = rateLimitStore[ip].resetTime

\* C21: checks of one identity in one window lose no update of the counter
\* (checkRateLimit has no await, so the calls of concurrent requests run one
\* after the other): the stored count is the number of checks admitted in
\* the window, the k-th admitted check is handed remaining 10 - k (seen on
\* the latest check while its entry is stored), so no two of them get the
\* same value, and no more than 10 are admitted.
C21_NoLostUpdate ==
    /\ \A ip \in DOMAIN rateLimitStore :
          /\ \E w \in windows[ip] : w.reset = rateLimitStore[ip].resetTime
          /\ rateLimitStore[ip].count = StoredWindow(ip).admitted
          /\ StoredWindow(ip).admitted <= RATE_LIMIT_MAX_REQUESTS
    /\ lastCheck.allowed /\ lastCheck.ip \in DOMAIN rateLimitStore =>
          lastCheck.remaining =
              RATE_LIMIT_MAX_REQUESTS - StoredWindow(lastCheck.ip).admitted

\* Eleven checks were made in one window: ten admitted and counted, one
\* rejected.
C21_Witness ==
    \E ip \in DOMAIN rateLimitStore :
        /\ rateLimitStore[ip].count = RATE_LIMIT_MAX_REQUESTS
        /\ \E w \in windows[ip] :
              /\ w.reset = rateLimitStore[ip].resetTime
              /\ w.calls = RATE_LIMIT_MAX_REQUESTS + 1
              /\ w.admitted = RATE_LIMIT_MAX_REQUESTS

\* C22: the sweep changes no answer and removes no active entry: every check
\* returns the (allowed, remaining, resetTime) that the same check returns
\* in the run of the same calls where no sweep fires, and an entry the sweep
\* has removed is one whose window had ended; the entries it keeps are those
\* of the run without sweeps.
C22_SweepNeutral ==
    /\ lastCheck.ip # "none" =>
          /\ lastCheck.allowed = lastCheck.unswept.allowed
          /\ lastCheck.remaining = lastCheck.unswept.remaining
          /\ lastCheck.resetTime = lastCheck.unswept.resetTime
    /\ DOMAIN rateLimitStore \subseteq DOMAIN unsweptStore
    /\ \A ip \in DOMAIN unsweptStore :
          IF ip \in DOMAIN rateLimitStore
          THEN rateLimitStore[ip] = unsweptStore[ip]
          ELSE unsweptStore[ip].resetTime < now

\* A check came upon an entry the sweep had removed, and another identity's
\* entry is still stored.
C22_Witness ==
    /\ lastCheck.swept
    /\ lastCheck.allowed
    /\ lastCheck.prevCalls > 0
    /\ Cardinality(DOMAIN rateLimitStore) = 2

(***************************************************************************)
(* Further properties of extractTextFromImage (Spec)                       *)
(***************************************************************************)
\* setTimeout takes a delay that is not a number as no delay.
Millis(w) == IF w.nan THEN 0 ELSE w.value

RECURSIVE TotalWait(_)
TotalWait(ws) == IF ws = << >> THEN 0 ELSE Millis(Head(ws)) + TotalWait(Tail(ws))

\* C23: the waits one extractTextFromImage call imposes between its attempts
\* add up to 7 seconds at most, whatever the upstream failures are, rate-limit
\* failures with a retry hint included.
C23_WaitsAtMostSevenSeconds == TotalWait(waits) <= 7 * 1000

(***************************************************************************)
(* Properties of connectToDatabase (SpecConnect, SpecConnectRace)          *)
(***************************************************************************)
Started == {c \in Callers : connectCalls[c].pc # "idle"}
Latest(c) == connectCalls[c].nth = callsStarted

ConnectedByCalls ==
    {connectCalls[c].client : c \in Callers} \cap connectedClients

AllReturned == \A c \in Callers : connectCalls[c].pc = "returned"

\* C29: when calls of connectToDatabase interleave while no client is cached,
\* or after a failed ping, one client is created and connected, every call
\* returns it, and it is the cached one.
C29_OneSharedClient ==
    AllReturned =>
        /\ \A c, d \in Callers : connectCalls[c].result = connectCalls[d].result
        /\ \A c \in Callers : connectCalls[c].result = clientCache
        /\ Cardinality(ConnectedByCalls) <= 1

(***************************************************************************)
(* Further properties of compressImageIfNeeded (SpecCompress)              *)
(***************************************************************************)
TooLargeAfterFirstPass ==
    /\ image.compressed.len > MaxSizeOf(input.opts)
    /\ QualityOf(input.opts) > 50

Oversized == NeedsResize(input, MaxDimensionOf(input.opts))

WithinMaxDimension(dims) ==
    /\ 0 < dims.width /\ dims.width <= MaxDimensionOf(input.opts)
    /\ 0 < dims.height /\ dims.height <= MaxDimensionOf(input.opts)

\* The encode passes: at most two; the second follows a first output larger
\* than maxSize when quality > 50, and nothing else; it encodes at
\* max(50, quality - 20) and its output is what is returned.
TwoPasses ==
    /\ image.passes <= 2
    /\ cpc = "encode2" => image.passes = 1 /\ TooLargeAfterFirstPass
    /\ cpc = "finalMeta" /\ image.passes = 1 => ~TooLargeAfterFirstPass
    /\ image.passes = 2 =>
          /\ QualityOf(input.opts) > 50
          /\ image.quality = Max2(50, QualityOf(input.opts) - 20)
          /\ image.compressed.enc = SecondPassEncoder(image.outputMimeType)
    /\ cpc = "done" /\ image.failedAt = "none" /\ image.passes >= 1 =>
          processed.buffer = image.compressed

\* C25 (as stated): the two-pass rule, and whenever the input exceeds
\* maxDimension the returned image is within maxDimension on both axes.
C25_TwoPassesWithinDimension ==
    /\ TwoPasses
    /\ cpc = "done" /\ Oversized =>
          /\ WithinMaxDimension(processed)
          /\ WithinMaxDimension(processed.buffer)

\* C25 (amended): the two-pass rule, and whenever the input exceeds
\* maxDimension and no sharp call failed the returned image is within
\* maxDimension on both axes; after a failure the original buffer is
\* returned, without width and height.
C25_TwoPassesWithinDimensionUnlessFailed ==
    /\ TwoPasses
    /\ cpc = "done" /\ Oversized =>
          IF image.failedAt = "none"
          THEN /\ WithinMaxDimension(processed)
               /\ WithinMaxDimension(processed.buffer)
          ELSE /\ processed.buffer = OriginalBuffer(input)
               /\ processed.width = 0 /\ processed.height = 0

\* An oversized input went through both passes and was returned.
C25_Witness ==
    /\ cpc = "done"
    /\ Oversized
    /\ image.failedAt = "none"
    /\ image.passes = 2
    /\ processed.buffer.len > MaxSizeOf(input.opts)

\* The MIME types that name an encoding.
Names(mimeType, enc) ==
    CASE enc = "jpeg" -> mimeType \in {ImageJpeg, ImageJpg}
      [] enc = "webp" -> mimeType = ImageWebp
      [] OTHER -> mimeType = input.mimeType

\* C26: the MIME type compressImageIfNeeded returns names the encoding last
\* applied to the buffer it returns (the input's own type when no encoder
\* was applied), on every path.
C26_MimeNamesEncoding ==
    cpc = "done" => Names(processed.mimeType, processed.buffer.enc)

(***************************************************************************)
(* Invariants of the rate limiter's entries (SpecRateLimit)                *)
(***************************************************************************)
Stored == DOMAIN rateLimitStore
Active(ip) == ip \in Stored /\ ~Expired(rateLimitStore[ip], now)
Checked == windows' # windows

\* Every stored entry has a count from 1 to 10.
CountInRange ==
    \A ip \in Stored :
        /\ 1 <= rateLimitStore[ip].count
        /\ rateLimitStore[ip].count <= RATE_LIMIT_MAX_REQUESTS

\* A step leaves the entry of an active window in place, with its resetTime
\* and with a count that is not smaller; a rejected check changes no entry; a
\* check changes the entry of no other identity.
EntriesStep ==
    /\ \A ip \in Stored :
          Active(ip) =>
              /\ ip \in DOMAIN rateLimitStore'
              /\ rateLimitStore'[ip].resetTime = rateLimitStore[ip].resetTime
              /\ rateLimitStore'[ip].count >= rateLimitStore[ip].count
    /\ Checked /\ ~lastCheck'.allowed => rateLimitStore' = rateLimitStore
    /\ Checked =>
          \A ip \in Ips \ {lastCheck'.ip} :
              /\ ip \in Stored <=> ip \in DOMAIN rateLimitStore'
              /\ ip \in Stored => rateLimitStore'[ip] = rateLimitStore[ip]

\* C27: every stored entry has 1 <= count <= 10; within an active window the
\* resetTime of an entry never changes and its count never decreases; a
\* rejected check leaves the entry unchanged; a check for one identity leaves
\* the entries of all others unchanged.
C27_EntryInvariants == []CountInRange /\ [][EntriesStep]_vars

\* A check was rejected while another identity had an entry.
C27_Witness ==
    /\ lastCheck.ip # "none"
    /\ ~lastCheck.allowed
    /\ rateLimitStore[lastCheck.ip].count = RATE_LIMIT_MAX_REQUESTS
    /\ Stored = Ips

\* The envelope of the request in hand, once it has been answered.
Answered(cause) ==
    /\ rpc = "done"
    /\ Len(envelopes) = 1
    /\ envelopes[1].cause = cause

\* The requests of this window so far are all answered or in hand after
\* their check, and the check of the request in hand was the nth of the
\* window.
AfterCheck == rpc # "rateLimit" /\ lastCheck.ip = RouteIp

\* C28: every admitted check of POST /api/ocr uses up one unit of the
\* window's budget whatever happens to the request afterwards: after the
\* check of the nth request of a window the stored count is n (capped at
\* ten) and stays so until the request is answered, be it with success or
\* with a failure of any cause; the first ten requests are admitted, and the
\* eleventh is answered 429 by the limiter before its form data is read,
\* without validation, extraction or storage.
C28_EveryAdmittedCheckCounts ==
    AfterCheck =>
        /\ RouteIp \in DOMAIN rateLimitStore
        /\ rateLimitStore[RouteIp].count =
              Min2(lastCheck.nth, RATE_LIMIT_MAX_REQUESTS)
        /\ lastCheck.allowed <=> lastCheck.nth <= RATE_LIMIT_MAX_REQUESTS
        /\ lastCheck.nth > RATE_LIMIT_MAX_REQUESTS =>
              /\ Answered("rateLimit")
              /\ envelopes[1].status = 429
              /\ pc = "idle"
              /\ input = NoInput
              /\ dbResult = NoDbResult
        /\ lastCheck.nth <= RATE_LIMIT_MAX_REQUESTS /\ rpc = "done" =>
              /\ Len(envelopes) = 1
              /\ envelopes[1].cause # "rateLimit"

\* Ten requests that left no record were admitted, and the eleventh of the
\* window is answered 429.
C28_Witness ==
    /\ AfterCheck
    /\ lastCheck.nth = RATE_LIMIT_MAX_REQUESTS + 1
    /\ Answered("rateLimit")
    /\ collection = {}

\* The call is over: it returned a result or threw.
Over == pc \in {"returned", "threw"}

\* The call got as far as the retry loop.
InLoop == events # << >>

\* The throw of lines 526-530 follows a loop whose counter ran out.
ThrewAfterLoop == pc = "threw" /\ attempt = maxRetries

\* A call that reached the loop ended in it: its last attempt returned, or
\* its catch block threw.
EndedInLoop ==
    LET last == events[Len(events)]
    IN  /\ last.try = attempt
        /\ attempt < maxRetries
        /\ pc = "returned" <=> last.ok
        /\ pc = "threw" => ~last.ok /\ ~last.wait.set

====
